---------------------------- MODULE Spec2Model ----------------------------
(***************************************************************************)
(* A model of the message-routing hub of src/src/zhttpsocket.rs: the       *)
(* client and the server socket manager loops, their four handle           *)
(* registries, the handle facades and the bounded channels between them.   *)
(*                                                                         *)
(* Bytes are small naturals, byte strings are sequences of bytes.          *)
(* Handles are numbered from 1 in creation order.  The two managers share  *)
(* the variable names of their run() functions; a specification fixes in   *)
(* its initial state which manager runs and what its environment (the      *)
(* owning thread, the workers, the external peers) does.                   *)
(***************************************************************************)
EXTENDS Integers, Sequences, FiniteSets, TLC

VARIABLES
    flavor,                  \* "client" (ClientSocketManager) or "server" (ServerSocketManager)
    conf,                    \* [instance_id, retained_max, hwm, handle_bound] given to new()
    env,                     \* what the environment of this run does (see Env)
    owner,                   \* the owning thread: "idle", "wait_reply", "joining", "dropped"
    control,                 \* control request channel (depth 1), owner -> manager
    control_reply,           \* control response channel (depth 1), manager -> owner
    hs,                      \* per handle: facade state, pipe end, the sub-channels
    req_handles,             \* request registry (slab, list, need_cleanup, send_index)
    stream_handles,          \* stream registry
    req_send,                \* in-flight send on the req socket (Option)
    stream_out_send,         \* in-flight send on the out socket (Option)
    stream_out_stream_send,  \* in-flight send on the out_stream socket (Option)
    specs_applied,           \* ServerStreamSockets.specs_applied
    pc,                      \* the manager loop: "select", "send", "stopped", "panicked"
    cur,                     \* the dispatch in progress / the last dispatch
    wire,                    \* frames accepted by the out_stream socket, not yet read by the peer
    nframes,                 \* inbound frames received so far (arrival stamp)
    nsends,                  \* messages enqueued by workers so far (enqueue stamp)
    nread,                   \* frames the peer of the out_stream socket has read
    lastgot,                 \* per handle: stamp of the latest frame its worker received
    lasthanded,              \* per handle and sub-channel: stamp of the latest message handed to a socket
    sr_log,                  \* server request dispatches: the handle each frame was enqueued on
    run_start,               \* length of sr_log when the server request registry last changed
    ss,                      \* server stream registry as it was when the stream specs were applied
    add_result,              \* per handle: what became of its Add request
    ret,                     \* the latest facade call of a worker and what it returned (if env.watch)
    callers,                 \* per thread sharing the manager: its call on the control inlet
    in_sock,                 \* the client in socket: its subscription, whether its endpoint is
                             \* installed, and what its publish peer has received from it
    io,                      \* the latest completion of a socket operation (if env.faults)
    arena                    \* per frame its SharedMessage reference count, and per handle
                             \* the frames its worker keeps (if env.refs)

vars == << flavor, conf, env, owner, control, control_reply, hs, req_handles, stream_handles,
           req_send, stream_out_send, stream_out_stream_send, specs_applied, pc,
           cur, wire, nframes, nsends, nread, lastgot, lasthanded, sr_log,
           run_start, ss, add_result, ret, callers, in_sock, io, arena >>

---------------------------------------------------------------------------
(* Bounds of the model *)

\* model-scale value of HANDLES_MAX (1_024 in the source)
HANDLES_MAX == 3
\* handles the owner creates in the runs with message traffic
MaxHandles == 2
\* inbound frames the client receives from its sockets
MaxFrames == 2
\* messages the workers enqueue
MaxSends == 2
\* per-handle channel depth in the runs that queue more than one message
HandleBound == 2
\* threads that share a manager, and the calls they make on it altogether
Callers == 2
MaxCalls == 3
\* requests and stream frames the server receives
ServerFrames == 4
\* send_to_addr calls that succeed in the flow-control run
FlowSends == 5
\* workers in the runs that follow messages through one channel
Workers == 1
\* workers that drop their handle in the runs of the client dispatch and of
\* the control channel
MaxDrops == 1

None == [none |-> TRUE]
Some(x) == [none |-> FALSE, v |-> x]
IsNone(o) == o.none

\* handle numbers: one more than HANDLES_MAX so that an Add can be refused
Handles == 1..(HANDLES_MAX + 1)

---------------------------------------------------------------------------
(* Bytes and packets *)

SP == 0
BT == 9
SEP == 8

\* <[u8]>::starts_with
StartsWithEq(id, p) == id = p
StartsWith(id, p) ==
    /\ Len(p) <= Len(id)
    /\ SubSeq(id, 1, Len(p)) = p

\* position (1-based) of the first space of buf, 0 if there is none
RECURSIVE FirstSpaceFrom(_, _)
FirstSpaceFrom(buf, i) ==
    IF i > Len(buf) THEN 0
    ELSE IF buf[i] = SP THEN i
    ELSE FirstSpaceFrom(buf, i + 1)

FirstSpace(buf) == FirstSpaceFrom(buf, 1)

\* ids of a payload: the byte BT, then every id followed by SEP
RECURSIVE SplitIds(_, _, _)
SplitIds(buf, acc, ids) ==
    IF buf = << >> THEN [ok |-> (acc = << >>), ids |-> ids]
    ELSE IF Head(buf) = SEP THEN SplitIds(Tail(buf), << >>, Append(ids, acc))
    ELSE SplitIds(Tail(buf), Append(acc, Head(buf)), ids)

parse_ids(buf) ==
    IF buf = << >> \/ Head(buf) # BT THEN [ok |-> FALSE, ids |-> << >>]
    ELSE SplitIds(Tail(buf), << >>, << >>)

\* the do_send loop of ReqHandles::send / StreamHandles::send
DoSend(ids, filter) == \E i \in 1..Len(ids) : StartsWith(ids[i], filter)

\* hash(): DefaultHasher with its fixed keys, a fixed function of the bytes;
\* a small fixed function stands for it
RECURSIVE hash(_)
hash(s) == IF s = << >> THEN 7 ELSE (31 * hash(Tail(s)) + Head(s)) % 64


---------------------------------------------------------------------------
(* Channels and handles *)

NoHandle ==
    [kind |-> "none", worker |-> "none", pipe |-> "none",
     inq |-> << >>, out |-> << >>, out_addr |-> << >>]

\* channel::channel(handle_bound) for each sub-channel of a new handle
NewHandle(kind) ==
    [kind |-> kind, worker |-> "open", pipe |-> "control",
     inq |-> << >>, out |-> << >>, out_addr |-> << >>]

\* the manager's pipe end is dropped: what workers queued for it is gone, and
\* so is what was queued for a worker that no longer holds its facade
DropPipe(e) ==
    [e EXCEPT !.pipe = "dropped", !.out = << >>, !.out_addr = << >>,
              !.inq = IF e.worker = "dropped" THEN << >> ELSE @]

DropPipes(H, S) == [h \in Handles |-> IF h \in S THEN DropPipe(H[h]) ELSE H[h]]

\* the lowest handle number not yet used
NextHandle == CHOOSE h \in Handles : hs[h].kind = "none" /\
                  \A g \in Handles : g < h => hs[g].kind # "none"

Msg(n, h, addr, header) == [n |-> n, h |-> h, addr |-> addr, header |-> header]
Frame(n, buf, header) == [seq |-> n, buf |-> buf, header |-> header]

---------------------------------------------------------------------------
(* Registries: a slab of nodes and the list threading it in insertion order *)

Vacant(n) == [occ |-> FALSE, h |-> 0, filter |-> << >>, valid |-> FALSE, nextfree |-> n]
Pipe(h, filter) == [occ |-> TRUE, h |-> h, filter |-> filter, valid |-> TRUE, nextfree |-> 0]

\* ReqHandles::new, StreamHandles::new, ServerStreamHandles::new
NewHandles == [slots |-> << >>, next |-> 0, list |-> << >>, need_cleanup |-> FALSE]
\* ServerReqHandles::new
NewServerReqHandles ==
    [slots |-> << >>, next |-> 0, list |-> << >>, need_cleanup |-> FALSE, send_index |-> 0]

\* nodes.len()
RegLen(reg) == Cardinality({k \in 1..Len(reg.slots) : reg.slots[k].occ})

\* the node of key k (keys count from 0)
Node(reg, k) == reg.slots[k + 1]

HandlesOf(reg) == {Node(reg, reg.list[i]).h : i \in 1..Len(reg.list)}
ValidHandlesOf(reg) ==
    {Node(reg, reg.list[i]).h : i \in {j \in 1..Len(reg.list) : Node(reg, reg.list[j]).valid}}

\* nodes.insert() then list.push_back()
RegAdd(reg, h, filter) ==
    LET key == reg.next IN
    IF key = Len(reg.slots)
    THEN [reg EXCEPT !.slots = Append(@, Pipe(h, filter)),
                     !.next = key + 1,
                     !.list = Append(@, key)]
    ELSE [reg EXCEPT !.slots[key + 1] = Pipe(h, filter),
                     !.next = Node(reg, key).nextfree,
                     !.list = Append(@, key)]

\* (a removal that takes the head of the list)
RemoveHead(s, i) == Tail(s)

RemoveAt(s, i) == SubSeq(s, 1, i - 1) \o SubSeq(s, i + 1, Len(s))

\* cleanup(): list.remove() and nodes.remove() for every invalid entry
RECURSIVE CleanupFrom(_, _)
CleanupFrom(reg, i) ==
    IF i > Len(reg.list) THEN [reg EXCEPT !.need_cleanup = FALSE]
    ELSE LET key == reg.list[i] IN
         IF ~Node(reg, key).valid
         THEN CleanupFrom([reg EXCEPT !.list = RemoveAt(@, i),
                                      !.slots[key + 1] = Vacant(reg.next),
                                      !.next = key], i)
         ELSE CleanupFrom(reg, i + 1)

\* (a cleanup that leaves the flag as it found it)
cleanupKeepsFlag(reg) == [CleanupFrom(reg, 1) EXCEPT !.need_cleanup = reg.need_cleanup]
cleanup(reg) == CleanupFrom(reg, 1)

\* (a loop that never runs the cleanup)
AfterIterationSkip(reg) == reg

\* the end of a loop iteration: if need_cleanup() { cleanup() }
AfterIteration(reg) == IF reg.need_cleanup THEN cleanup(reg) ELSE reg

\* (an entry marked invalid without the cleanup flag)
InvalidateNoFlag(reg, key) ==
    [reg EXCEPT !.slots[key + 1].valid = FALSE]

\* p.valid.set(false); self.need_cleanup.set(true)
Invalidate(reg, key) ==
    [reg EXCEPT !.slots[key + 1].valid = FALSE, !.need_cleanup = TRUE]

---------------------------------------------------------------------------
(* Dispatch *)

NoDispatch ==
    [kind |-> "none", frame |-> Frame(0, << >>, 0), ids |-> << >>, pos |-> 0,
     valid0 |-> {}, got |-> << >>, refs |-> 0]

\* the valid entries of a registry: handle and prefix
ValidEntriesOf(reg) ==
    {[h |-> Node(reg, reg.list[i]).h, filter |-> Node(reg, reg.list[i]).filter] :
        i \in {j \in 1..Len(reg.list) : Node(reg, reg.list[j]).valid}}

\* a dispatch starts: the frame, its ids, the entries valid at that moment
\* and, as it proceeds, the handles the frame is enqueued on and the
\* references the handler made and has not released: arena::Arc::new is one
NewDispatch(kind, frame, ids, reg) ==
    [kind |-> kind, frame |-> frame, ids |-> ids, pos |-> 1,
     valid0 |-> ValidEntriesOf(reg), got |-> << >>, refs |-> 1]

\* (a failed send that keeps the copy it was given)
AfterFailedSendLeak(refs) == refs + 1

\* Arc::clone(msg) handed to a send that returns Err: the copy comes back
\* inside the error and is dropped with it
AfterFailedSend(refs) == (refs + 1) - 1

\* (a send that does not notice that the peer is gone)
SendStateIgnoreGone(H, h) ==
    IF Len(H[h].inq) < conf.handle_bound THEN "ok" ELSE "pending"

\* sender.send(Arc::clone(msg)).await on the entry of handle h:
\* "err" when the worker dropped its receiver, "ok" when the channel has
\* room, "pending" while it is full
SendState(H, h) ==
    IF H[h].worker = "dropped" THEN "err"
    ELSE IF Len(H[h].inq) < conf.handle_bound THEN "ok"
    ELSE "pending"

\* ReqHandles::send / StreamHandles::send from list position c.pos on, up to
\* the first send that has to wait
RECURSIVE PrefixSend(_, _, _)
PrefixSend(reg, H, c) ==
    IF c.pos > Len(reg.list) THEN [reg |-> reg, hs |-> H, cur |-> c, blocked |-> FALSE]
    ELSE LET key == reg.list[c.pos]
             p == Node(reg, key)
             st == SendState(H, p.h)
         IN  IF p.valid /\ DoSend(c.ids, p.filter)
             THEN IF st = "err"
                  THEN PrefixSend(Invalidate(reg, key), H,
                                  [c EXCEPT !.pos = @ + 1, !.refs = AfterFailedSend(@)])
                  ELSE IF st = "ok"
                  THEN PrefixSend(reg, [H EXCEPT ![p.h].inq = Append(@, c.frame)],
                                  [c EXCEPT !.pos = @ + 1, !.got = Append(@, p.h),
                                            !.refs = @ + 1])
                  ELSE [reg |-> reg, hs |-> H, cur |-> c, blocked |-> TRUE]
             ELSE PrefixSend(reg, H, [c EXCEPT !.pos = @ + 1])



---------------------------------------------------------------------------
(* Inputs *)

\* instance_id given to new()
InstanceId == << 5 >>
\* identity of the external peer of the out_stream socket
PeerId == << 7 >>
\* receive high-water mark of that peer
PeerRcvHwm == 1

\* id prefixes the owner registers client handles with
Prefixes == { << >>, << 1 >>, << 2, 3 >> }

\* payloads: id (1 3); ids (1 3) and (2 3); no id; not a packet
Payloads ==
    { << BT, 1, 3, SEP >>, << BT, 1, 3, SEP, 2, 3, SEP >>, << BT >>, << 1 >> }

\* frames arriving on the client in socket: for us; for us with a space in
\* the payload; for another instance; no space; an address we are a prefix of
StreamFrames ==
    { InstanceId \o << SP, BT, 1, 3, SEP >>,
      InstanceId \o << SP, BT, 2, SP, SEP >>,
      << 6, SP, BT, 1, 3, SEP >>,
      << BT, 1, 3, SEP >>,
      InstanceId \o InstanceId \o << SP, BT, 1, 3, SEP >> }

\* the reply envelope captured when a request is received
ReqHeader == << 7 >>

\* payloads arriving on the server stream sockets: id (1); id (2); both.
\* The hashes of the two ids differ modulo 2 and modulo 3.
ServerPayloads ==
    { << BT, 1, SEP >>, << BT, 2, SEP >>, << BT, 1, SEP, 2, SEP >> }

\* nothing recorded: the stream specs have not been applied
NoSpecs == [n |-> 0, at |-> 0, entries |-> << >>, result |-> "none"]

Conf(retained_max, hwm, handle_bound) ==
    [instance_id |-> InstanceId, retained_max |-> retained_max, hwm |-> hwm,
     handle_bound |-> handle_bound]

\* the environment of a run: the handles the owner creates and the prefixes
\* it gives them, the frames the external peers send, how many messages the
\* workers enqueue, how many workers drop their handles, and how many
\* messages the out_stream peer lets arrive before it reads
Env(handles, prefixes, frames, payloads, sends, drops, read_after) ==
    [handles |-> handles, prefixes |-> prefixes, frames |-> frames,
     payloads |-> payloads, sends |-> sends, drops |-> drops,
     read_after |-> read_after, watch |-> FALSE, addrs |-> { PeerId },
     headers |-> { ReqHeader }, idle |-> {}, faults |-> FALSE, refs |-> FALSE]

\* the same run with the results of the workers' facade calls recorded
Watched(e) == [e EXCEPT !.watch = TRUE]

\* the same run with the workers addressing their messages to any of addrs
Addressing(e, addrs) == [e EXCEPT !.addrs = addrs]

\* the same run with the workers of the handles in idle never calling recv
Stalling(e, idle) == [e EXCEPT !.idle = idle]

\* the same run with socket operations that may fail, their results recorded
Faulty(e) == [e EXCEPT !.faults = TRUE]

\* the same run with the references to every SharedMessage counted and the
\* workers keeping the frames they received for as long as they like
Counted(e) == [e EXCEPT !.refs = TRUE]

\* the same run with server requests and replies carrying any of headers
Heading(e, headers) == [e EXCEPT !.headers = headers]

\* a facade call and its result; NoItem where no message is passed or returned
NoItem == [n |-> 0]
Call(op, h, ch, arg, r) ==
    [op |-> op, h |-> h, ch |-> ch, arg |-> arg, res |-> r.res, item |-> r.item]
NoCall == Call("none", 0, "none", NoItem, [res |-> "none", item |-> NoItem])

Request(type, h, filter, ok) == [type |-> type, h |-> h, filter |-> filter, ok |-> ok]

\* a thread that is not inside a call on the manager; done counts the calls
\* it has made and result is what its latest call returned
Threads == 1..Callers
NoRequest == Request("none", 0, << >>, TRUE)
Returned(what, ok) == [what |-> what, ok |-> ok]
Outside(done, result) == [at |-> "outside", req |-> NoRequest, done |-> done, result |-> result]

\* let sub = format!("{} ", instance_id)
\* (a subscription to the bare instance id)
SubscriptionBare(instance_id) == instance_id
Subscription(instance_id) == instance_id \o << SP >>

\* the first byte of a subscription message as a publish peer receives it
SUBSCRIBE == 1

\* the completion of a send or recv on a socket: the result the future
\* yields, and for a send the stamp of the message
Io(op, sock, res, n) == [op |-> op, sock |-> sock, res |-> res, n |-> n]
NoIo == Io("none", "none", "ok", 0)

---------------------------------------------------------------------------
(* Initial states: the state after new() and run()'s setup *)

InitWith(f, c, e) ==
    /\ flavor = f
    /\ conf = c
    /\ env = e
    /\ owner = "idle"
    /\ control = << >>
    /\ control_reply = << >>
    /\ hs = [h \in Handles |-> NoHandle]
    /\ req_handles = IF f = "client" THEN NewHandles ELSE NewServerReqHandles
    /\ stream_handles = NewHandles
    /\ req_send = None
    /\ stream_out_send = None
    /\ stream_out_stream_send = None
    /\ specs_applied = FALSE
    /\ pc = "select"
    /\ cur = NoDispatch
    /\ wire = << >>
    /\ nframes = 0
    /\ nsends = 0
    /\ nread = 0
    /\ lastgot = [h \in Handles |-> 0]
    /\ lasthanded = [h \in Handles |-> [any |-> 0, addr |-> 0]]
    /\ sr_log = << >>
    /\ run_start = 0
    /\ ss = NoSpecs
    /\ add_result = [h \in Handles |-> "none"]
    /\ ret = NoCall
    /\ callers = [t \in Threads |-> Outside(0, Returned("none", TRUE))]
    /\ io = NoIo
    /\ arena = [rc |-> [k \in 1..e.frames |-> 0], held |-> [h \in Handles |-> {}]]
    /\ in_sock = [subscribe |-> Subscription(c.instance_id), installed |-> FALSE,
                  peer |-> << >>]

static == << flavor, conf, env >>
inflight == << req_send, stream_out_send, stream_out_stream_send >>
counters == << wire, nframes, nsends, nread >>
fifo == << lastgot, lasthanded >>
ghosts == << sr_log, run_start, ss, add_result >>

---------------------------------------------------------------------------
(* The arena: the references to the SharedMessage of every frame *)

\* the copies of frame k a channel holds
Copies(q, k) == Cardinality({ i \in 1..Len(q) : q[i].seq = k })

RECURSIVE CopiesIn(_, _, _)
CopiesIn(H, S, k) ==
    IF S = {} THEN 0
    ELSE LET h == CHOOSE x \in S : TRUE
         IN  Copies(H[h].inq, k) + CopiesIn(H, S \ {h}, k)

\* the handles whose inbound channel loses its second end in this step: what
\* the channel still holds is dropped with it
ChannelsGone ==
    { h \in Handles : /\ hs'[h].pipe = "dropped" /\ hs'[h].worker = "dropped"
                      /\ ~(hs[h].pipe = "dropped" /\ hs[h].worker = "dropped") }

\* what a step does to the reference counts.  A handler that ran in this
\* step (on a new frame, or resumed inside send()) made the references its
\* dispatch counted; a send that waits holds the copy it was given; a handler
\* that returns or unwinds drops its own reference.  A worker that receives
\* a frame takes over the channel's reference.
Arena ==
    arena' =
      IF ~env.refs THEN arena
      ELSE LET n == cur'.frame.seq
               ran == /\ cur'.kind \notin { "none", "nomem" }
                      /\ (nframes' # nframes \/ pc = "send")
               made == cur'.refs - (IF nframes' # nframes THEN 0 ELSE cur.refs)
               waits == (IF pc' = "send" THEN 1 ELSE 0) - (IF pc = "send" THEN 1 ELSE 0)
               own == IF pc' = "send" THEN 0 ELSE 1
           IN  [rc |-> [k \in DOMAIN arena.rc |->
                          (arena.rc[k] + (IF ran /\ k = n THEN (made + waits) - own ELSE 0))
                            - CopiesIn(hs, ChannelsGone, k)],
                held |-> [h \in Handles |->
                          IF lastgot'[h] # lastgot[h]
                          THEN arena.held[h] \cup { lastgot'[h] }
                          ELSE arena.held[h]]]

---------------------------------------------------------------------------
(* The owning thread *)

\* control_send(): blocks while the control queue is full
CanControlSend == owner = "idle" /\ Len(control) = 0

\* a handle is created and its pipe end sent to the manager
AddHandle(type, kind, filter) ==
    /\ CanControlSend
    /\ \E h \in 1..env.handles : hs[h].kind = "none"
    /\ hs' = [hs EXCEPT ![NextHandle] = NewHandle(kind)]
    /\ control' = << Request(type, NextHandle, filter, TRUE) >>
    /\ UNCHANGED << static, io, ret, callers, in_sock, owner, control_reply, req_handles, stream_handles, inflight,
                    specs_applied, pc, cur, counters, fifo, ghosts >> /\ Arena

client_req_handle ==
    flavor = "client" /\ \E f \in env.prefixes : AddHandle("AddClientReqHandle", "req", f)
client_stream_handle ==
    flavor = "client" /\ \E f \in env.prefixes : AddHandle("AddClientStreamHandle", "stream", f)
server_req_handle ==
    flavor = "server" /\ AddHandle("AddServerReqHandle", "sreq", << >>)
server_stream_handle ==
    flavor = "server" /\ AddHandle("AddServerStreamHandle", "sstream", << >>)

\* control_req(): send the request, then block on the reply
SetSpecs(type) ==
    /\ CanControlSend
    /\ \E ok \in BOOLEAN : control' = << Request(type, 0, << >>, ok) >>
    /\ owner' = "wait_reply"
    /\ UNCHANGED << static, io, ret, callers, in_sock, control_reply, hs, req_handles, stream_handles, inflight,
                    specs_applied, pc, cur, counters, fifo, ghosts >> /\ Arena

set_client_req_specs == flavor = "client" /\ SetSpecs("SetClientReq")
set_client_stream_specs == flavor = "client" /\ SetSpecs("SetClientStream")
set_server_req_specs == flavor = "server" /\ SetSpecs("SetServerReq")
set_server_stream_specs == flavor = "server" /\ SetSpecs("SetServerStream")

control_req_reply ==
    /\ owner = "wait_reply"
    /\ control_reply # << >>
    /\ control_reply' = Tail(control_reply)
    /\ owner' = "idle"
    /\ UNCHANGED << static, io, ret, callers, in_sock, control, hs, req_handles, stream_handles, inflight,
                    specs_applied, pc, cur, counters, fifo, ghosts >> /\ Arena

\* Drop: control_send(Stop), then thread.join()
drop_manager ==
    /\ CanControlSend
    /\ control' = << Request("Stop", 0, << >>, TRUE) >>
    /\ owner' = "joining"
    /\ UNCHANGED << static, io, ret, callers, in_sock, control_reply, hs, req_handles, stream_handles, inflight,
                    specs_applied, pc, cur, counters, fifo, ghosts >> /\ Arena

\* (a drop that does not wait for the thread)
drop_no_join ==
    /\ owner = "joining"
    /\ owner' = "dropped"
    /\ UNCHANGED << static, io, ret, callers, in_sock, control, control_reply, hs, req_handles, stream_handles,
                    inflight, specs_applied, pc, cur, counters, fifo, ghosts >> /\ Arena

\* thread.join() returns once run() has returned
drop_joined ==
    /\ owner = "joining"
    /\ pc = "stopped"
    /\ owner' = "dropped"
    /\ UNCHANGED << static, io, ret, callers, in_sock, control, control_reply, hs, req_handles, stream_handles,
                    inflight, specs_applied, pc, cur, counters, fifo, ghosts >> /\ Arena

---------------------------------------------------------------------------
(* Threads sharing one manager through &self.  control_send() and           *)
(* control_req() are followed step by step: the thread is at "lock" until   *)
(* it holds control_pipe, at "send" until the request is in the queue, and  *)
(* at "recv" until the reply is there.                                      *)

\* control_pipe.lock(): the mutex is free
\* (a lock that excludes nobody)
LockAlways == TRUE
LockFree == \A t \in Threads : callers[t].at \notin {"send", "recv"}

\* pipe.0.send(req) can complete: channel::channel(1) has room
\* (a queue without a limit)
SendAlways == TRUE
SendReady == Len(control) < 1

SetTypes == {"SetClientReq", "SetClientStream", "SetServerReq", "SetServerStream"}

\* calls made or begun by threads 1..t
RECURSIVE Calls(_)
Calls(t) ==
    IF t = 0 THEN 0
    ELSE callers[t].done + (IF callers[t].at = "outside" THEN 0 ELSE 1) + Calls(t - 1)

Enter(t, req) ==
    /\ owner = "idle"
    /\ callers[t].at = "outside"
    /\ Calls(Callers) < MaxCalls
    /\ callers' = [callers EXCEPT ![t] = [@ EXCEPT !.at = "lock", !.req = req]]

\* server_req_handle() / server_stream_handle() up to control_send()
server_handle_call(t) ==
    /\ flavor = "server"
    /\ \E h \in 1..env.handles : hs[h].kind = "none"
    /\ \E k \in {"req", "stream"} :
          /\ Enter(t, Request(IF k = "req" THEN "AddServerReqHandle"
                                           ELSE "AddServerStreamHandle",
                              NextHandle, << >>, TRUE))
          /\ hs' = [hs EXCEPT ![NextHandle] = NewHandle(IF k = "req" THEN "sreq" ELSE "sstream")]
    /\ UNCHANGED << static, io, ret, in_sock, owner, control, control_reply, req_handles, stream_handles,
                    inflight, specs_applied, pc, cur, counters, fifo, ghosts >> /\ Arena

\* set_server_stream_specs(&self, ..) up to control_req(); ok is whether the
\* specs will apply
server_specs_call(t) ==
    /\ flavor = "server"
    /\ \E ok \in BOOLEAN : Enter(t, Request("SetServerStream", 0, << >>, ok))
    /\ UNCHANGED << static, io, ret, in_sock, owner, control, control_reply, hs, req_handles,
                    stream_handles, inflight, specs_applied, pc, cur, counters, fifo, ghosts >> /\ Arena

\* let pipe = self.control_pipe.lock().unwrap()
control_lock(t) ==
    /\ callers[t].at = "lock"
    /\ LockFree
    /\ callers' = [callers EXCEPT ![t].at = "send"]
    /\ UNCHANGED << static, io, ret, in_sock, owner, control, control_reply, hs, req_handles,
                    stream_handles, inflight, specs_applied, pc, cur, counters, fifo, ghosts >> /\ Arena

\* (a control_send() that stays for a reply)
control_send_stays(t) ==
    /\ callers[t].at = "send"
    /\ callers[t].req.type \notin SetTypes
    /\ SendReady
    /\ control' = Append(control, callers[t].req)
    /\ callers' = [callers EXCEPT ![t].at = "recv"]
    /\ UNCHANGED << static, io, ret, in_sock, owner, control_reply, hs, req_handles, stream_handles,
                    inflight, specs_applied, pc, cur, counters, fifo, ghosts >> /\ Arena

\* pipe.0.send(req).unwrap(); control_send() returns () and releases the lock
control_send(t) ==
    /\ callers[t].at = "send"
    /\ callers[t].req.type \notin SetTypes
    /\ SendReady
    /\ control' = Append(control, callers[t].req)
    /\ callers' = [callers EXCEPT ![t] = Outside(@.done + 1, Returned("unit", TRUE))]
    /\ UNCHANGED << static, io, ret, in_sock, owner, control_reply, hs, req_handles, stream_handles,
                    inflight, specs_applied, pc, cur, counters, fifo, ghosts >> /\ Arena

\* pipe.0.send(req).unwrap() in control_req()
control_req_send(t) ==
    /\ callers[t].at = "send"
    /\ callers[t].req.type \in SetTypes
    /\ SendReady
    /\ control' = Append(control, callers[t].req)
    /\ callers' = [callers EXCEPT ![t].at = "recv"]
    /\ UNCHANGED << static, io, ret, in_sock, owner, control_reply, hs, req_handles, stream_handles,
                    inflight, specs_applied, pc, cur, counters, fifo, ghosts >> /\ Arena

\* pipe.1.recv().unwrap(); control_req() returns the reply and releases the lock
control_req_recv(t) ==
    /\ callers[t].at = "recv"
    /\ control_reply # << >>
    /\ control_reply' = Tail(control_reply)
    /\ callers' = [callers EXCEPT ![t] = Outside(@.done + 1, Returned("reply", Head(control_reply)))]
    /\ UNCHANGED << static, io, ret, in_sock, owner, control, hs, req_handles, stream_handles,
                    inflight, specs_applied, pc, cur, counters, fifo, ghosts >> /\ Arena

\* Drop takes &mut self: no thread is inside a call
drop_shared ==
    /\ \A t \in Threads : callers[t].at = "outside"
    /\ drop_manager

---------------------------------------------------------------------------
(* The manager loop, client flavor.  Every action is one settlement of the  *)
(* selector with the handler that follows it and the cleanup that ends the  *)
(* iteration.                                                               *)

\* the results a socket operation may complete with
Outcomes == IF env.faults THEN {"ok", "err"} ELSE {"ok"}

\* (a loop that keeps the slot of a send that failed, to try it again)
ClearedOnOk(slot, res) == IF res = "ok" THEN None ELSE slot
\* if let Err(e) = result { error!(..) }; slot = None
Cleared(slot, res) == None

\* the completion is logged
Noted(op, sock, res, n) == io' = IF env.faults THEN Io(op, sock, res, n) ELSE io

\* the cleanup pass that ends an iteration; the pipe ends of the removed
\* entries are dropped with them
Settle(rq, st, H) ==
    LET rq2 == AfterIteration(rq)
        st2 == AfterIteration(st)
        gone == (HandlesOf(rq) \ HandlesOf(rq2)) \cup (HandlesOf(st) \ HandlesOf(st2))
    IN  /\ req_handles' = rq2
        /\ stream_handles' = st2
        /\ hs' = DropPipes(H, gone)

\* (a Stop that lets the outstanding sends go on)
StoppedKeeps ==
    /\ pc' = "stopped"
    /\ hs' = DropPipes(hs, HandlesOf(req_handles) \cup HandlesOf(stream_handles))
    /\ UNCHANGED << req_send, stream_out_send, stream_out_stream_send >>
    /\ UNCHANGED << req_handles, stream_handles, control_reply >>

\* run() returns: registries, sockets and the control receiver are dropped
Stopped ==
    /\ pc' = "stopped"
    /\ hs' = DropPipes(hs, HandlesOf(req_handles) \cup HandlesOf(stream_handles))
    /\ req_send' = None
    /\ stream_out_send' = None
    /\ stream_out_stream_send' = None
    /\ UNCHANGED << req_handles, stream_handles, control_reply >>

\* the manager thread panics: run() unwinds and drops what it owns
Panicked ==
    /\ pc' = "panicked"
    /\ hs' = DropPipes(hs, HandlesOf(req_handles) \cup HandlesOf(stream_handles))
    /\ UNCHANGED << req_handles, stream_handles >>

\* arena_size = (HANDLES_MAX * hwm) + retained_max + 1
arena_size == (HANDLES_MAX * conf.hwm) + conf.retained_max + 1

\* the arena slots in use: one for every frame some handle's inbound channel
\* still holds
Live == Cardinality(UNION { { hs[h].inq[i].seq : i \in 1..Len(hs[h].inq) } : h \in Handles })

\* arena::Arc::new(msg, messages_memory).unwrap() with no slot left
NoMemory(frame) ==
    /\ cur' = [NoDispatch EXCEPT !.kind = "nomem", !.frame = frame]
    /\ Panicked

\* req_handles.len() + stream_handles.len() < HANDLES_MAX
HandleBoundFreeLeq == RegLen(req_handles) + RegLen(stream_handles) <= HANDLES_MAX
HandleBoundFree == RegLen(req_handles) + RegLen(stream_handles) < HANDLES_MAX

\* (a refusal that keeps the pipe end)
RefuseKeeps(req, why) ==
    /\ Settle(req_handles, stream_handles, hs)
    /\ add_result' = [add_result EXCEPT ![req.h] = why]

\* the pipe end of an Add request is dropped with the request
Refuse(req, why) ==
    /\ Settle(req_handles, stream_handles, DropPipes(hs, {req.h}))
    /\ add_result' = [add_result EXCEPT ![req.h] = why]

\* an Add*Handle arm: the entry is added while the handle bound allows it
AddTo(which, req) ==
    IF HandleBoundFree
    THEN /\ IF which = "req"
            THEN Settle(RegAdd(req_handles, req.h, req.filter), stream_handles,
                        [hs EXCEPT ![req.h].pipe = "registry"])
            ELSE Settle(req_handles, RegAdd(stream_handles, req.h, req.filter),
                        [hs EXCEPT ![req.h].pipe = "registry"])
         /\ add_result' = [add_result EXCEPT ![req.h] =
                              IF specs_applied THEN "added_after_specs" ELSE "added"]
    ELSE Refuse(req, "bound")

\* Select9::R1, control_receiver.recv
ClientControl ==
    /\ flavor = "client"
    /\ pc = "select"
    /\ control # << >>
    /\ control' = Tail(control)
    /\ LET req == Head(control) IN
       CASE req.type = "Stop" ->
               /\ Stopped
               /\ UNCHANGED add_result
         [] req.type \in {"SetClientReq", "SetClientStream"} ->
               /\ control_reply' = Append(control_reply, req.ok)
               /\ Settle(req_handles, stream_handles, hs)
               /\ UNCHANGED << pc, inflight, add_result >>
         [] req.type = "AddClientReqHandle" ->
               /\ AddTo("req", req)
               /\ UNCHANGED << pc, inflight, control_reply >>
         [] req.type = "AddClientStreamHandle" ->
               /\ AddTo("stream", req)
               /\ UNCHANGED << pc, inflight, control_reply >>
    /\ in_sock' = IF Head(control).type = "SetClientStream" /\ Head(control).ok
                  THEN [in_sock EXCEPT !.installed = TRUE]
                  ELSE in_sock
    /\ UNCHANGED << static, io, ret, callers, owner, specs_applied, cur, counters, fifo, sr_log,
                    run_start, ss >> /\ Arena

\* the publish peer of the in socket is given the socket's subscription when
\* the endpoint is installed; the in socket sends nothing else
PeerSubscribed ==
    /\ flavor = "client"
    /\ in_sock.installed
    /\ in_sock.peer = << >>
    /\ in_sock' = [in_sock EXCEPT !.peer = << << SUBSCRIBE >> \o in_sock.subscribe >>]
    /\ UNCHANGED << static, io, ret, callers, owner, control, control_reply, hs, req_handles,
                    stream_handles, inflight, specs_applied, pc, cur, counters, fifo, ghosts >> /\ Arena

\* a registry recv() finds the channel of a valid entry closed: the entry is
\* marked invalid and the recv keeps waiting (the selector does not settle)
RecvClosed(reg, h, ch) ==
    /\ h \in ValidHandlesOf(reg)
    /\ hs[h].worker = "dropped"
    /\ hs[h][ch] = << >>

KeyOf(reg, h) == CHOOSE k \in 0..(Len(reg.slots) - 1) : Node(reg, k).occ /\ Node(reg, k).h = h

\* a registry recv future exists in an iteration only while the socket's
\* in-flight slot is empty
SlotAlways(slot) == TRUE
SlotFree(slot) == IsNone(slot)

ReqHandlesRecvClosed ==
    /\ flavor = "client"
    /\ pc = "select"
    /\ SlotFree(req_send)
    /\ \E h \in Handles :
          /\ RecvClosed(req_handles, h, "out")
          /\ req_handles' = Invalidate(req_handles, KeyOf(req_handles, h))
    /\ UNCHANGED << static, io, ret, callers, in_sock, owner, control, control_reply, hs, stream_handles, inflight,
                    specs_applied, pc, cur, counters, fifo, ghosts >> /\ Arena

StreamHandlesRecvAnyClosed ==
    /\ flavor = "client"
    /\ pc = "select"
    /\ SlotFree(stream_out_send)
    /\ \E h \in Handles :
          /\ RecvClosed(stream_handles, h, "out")
          /\ stream_handles' = Invalidate(stream_handles, KeyOf(stream_handles, h))
    /\ UNCHANGED << static, io, ret, callers, in_sock, owner, control, control_reply, hs, req_handles, inflight,
                    specs_applied, pc, cur, counters, fifo, ghosts >> /\ Arena

StreamHandlesRecvAddrClosed ==
    /\ flavor = "client"
    /\ pc = "select"
    /\ SlotFree(stream_out_stream_send)
    /\ \E h \in Handles :
          /\ RecvClosed(stream_handles, h, "out_addr")
          /\ stream_handles' = Invalidate(stream_handles, KeyOf(stream_handles, h))
    /\ UNCHANGED << static, io, ret, callers, in_sock, owner, control, control_reply, hs, req_handles, inflight,
                    specs_applied, pc, cur, counters, fifo, ghosts >> /\ Arena

\* a channel receive takes the oldest item
PopBack(q) == [item |-> q[Len(q)], rest |-> SubSeq(q, 1, Len(q) - 1)]
Pop(q) == [item |-> Head(q), rest |-> Tail(q)]

\* Select9::R2, req_handles.recv(): req_send = Some(sock.send_to(h, msg))
ReqHandlesRecv ==
    /\ flavor = "client"
    /\ pc = "select"
    /\ SlotFree(req_send)
    /\ \E h \in ValidHandlesOf(req_handles) :
          /\ hs[h].out # << >>
          /\ req_send' = Some(Pop(hs[h].out).item)
          /\ lasthanded' = [lasthanded EXCEPT ![h].any = Pop(hs[h].out).item.n]
          /\ Settle(req_handles, stream_handles, [hs EXCEPT ![h].out = Pop(@).rest])
    /\ UNCHANGED << static, io, ret, callers, in_sock, owner, control, control_reply, stream_out_send,
                    stream_out_stream_send, specs_applied, pc, cur, counters,
                    lastgot, ghosts >> /\ Arena

\* Select9::R3, the req send completes (with Ok or with an error)
ReqSendDone ==
    /\ flavor = "client"
    /\ pc = "select"
    /\ ~IsNone(req_send)
    /\ \E res \in Outcomes :
          /\ req_send' = Cleared(req_send, res)
          /\ Noted("send", "req", res, req_send.v.n)
    /\ Settle(req_handles, stream_handles, hs)
    /\ UNCHANGED << static, ret, callers, in_sock, owner, control, control_reply, stream_out_send,
                    stream_out_stream_send, specs_applied, pc, cur, counters,
                    fifo, ghosts >> /\ Arena

\* Select9::R5, stream_handles.recv_any(): stream_out_send = Some(out.send(msg))
StreamHandlesRecvAny ==
    /\ flavor = "client"
    /\ pc = "select"
    /\ SlotFree(stream_out_send)
    /\ \E h \in ValidHandlesOf(stream_handles) :
          /\ hs[h].out # << >>
          /\ stream_out_send' = Some(Pop(hs[h].out).item)
          /\ lasthanded' = [lasthanded EXCEPT ![h].any = Pop(hs[h].out).item.n]
          /\ Settle(req_handles, stream_handles, [hs EXCEPT ![h].out = Pop(@).rest])
    /\ UNCHANGED << static, io, ret, callers, in_sock, owner, control, control_reply, req_send,
                    stream_out_stream_send, specs_applied, pc, cur, counters,
                    lastgot, ghosts >> /\ Arena

\* Select9::R6, the out send completes
StreamOutSendDone ==
    /\ flavor = "client"
    /\ pc = "select"
    /\ ~IsNone(stream_out_send)
    /\ \E res \in Outcomes :
          /\ stream_out_send' = Cleared(stream_out_send, res)
          /\ Noted("send", "out", res, stream_out_send.v.n)
    /\ Settle(req_handles, stream_handles, hs)
    /\ UNCHANGED << static, ret, callers, in_sock, owner, control, control_reply, req_send,
                    stream_out_stream_send, specs_applied, pc, cur, counters,
                    fifo, ghosts >> /\ Arena

\* Select9::R7, stream_handles.recv_addr(): the address becomes the header of
\* out_stream.send_to(h, msg)
StreamHandlesRecvAddr ==
    /\ flavor = "client"
    /\ pc = "select"
    /\ SlotFree(stream_out_stream_send)
    /\ \E h \in ValidHandlesOf(stream_handles) :
          /\ hs[h].out_addr # << >>
          /\ LET m == Pop(hs[h].out_addr).item IN
             /\ stream_out_stream_send' = Some([m EXCEPT !.header = << m.addr >>])
             /\ lasthanded' = [lasthanded EXCEPT ![h].addr = m.n]
          /\ Settle(req_handles, stream_handles, [hs EXCEPT ![h].out_addr = Pop(@).rest])
    /\ UNCHANGED << static, io, ret, callers, in_sock, owner, control, control_reply, req_send, stream_out_send,
                    specs_applied, pc, cur, counters, lastgot, ghosts >> /\ Arena

\* the out_stream socket takes a message while the queues towards the peer
\* (its own high-water mark and the peer's) have room
WireRoom == Len(wire) < conf.hwm + PeerRcvHwm

\* Select9::R8, the out_stream send completes
StreamOutStreamSendDone ==
    /\ flavor = "client"
    /\ pc = "select"
    /\ ~IsNone(stream_out_stream_send)
    /\ \E res \in Outcomes :
          /\ IF res = "ok"
             THEN WireRoom /\ wire' = Append(wire, stream_out_stream_send.v.n)
             ELSE wire' = wire
          /\ stream_out_stream_send' = Cleared(stream_out_stream_send, res)
          /\ Noted("send", "out_stream", res, stream_out_stream_send.v.n)
    /\ Settle(req_handles, stream_handles, hs)
    /\ UNCHANGED << static, ret, callers, in_sock, owner, control, control_reply, req_send, stream_out_send,
                    specs_applied, pc, cur, nframes, nsends, nread, fifo, ghosts >> /\ Arena

\* the external peer reads one frame from its socket
PeerRead ==
    /\ wire # << >>
    /\ nsends >= env.read_after
    /\ wire' = Tail(wire)
    /\ nread' = nread + 1
    /\ UNCHANGED << static, io, ret, callers, in_sock, owner, control, control_reply, hs, req_handles,
                    stream_handles, inflight, specs_applied, pc, cur, nframes, nsends,
                    fifo, ghosts >> /\ Arena

\* Select9::R4 / R9 with Err(e): the error is logged
ClientSockRecvErr ==
    /\ flavor = "client"
    /\ pc = "select"
    /\ env.faults
    /\ \E sock \in {"req", "in"} : Noted("recv", sock, "err", 0)
    /\ Settle(req_handles, stream_handles, hs)
    /\ UNCHANGED << static, ret, callers, in_sock, owner, control, control_reply, inflight,
                    specs_applied, pc, cur, counters, fifo, ghosts >> /\ Arena

\* the registry a dispatch of the given kind runs on
RegOf(kind) == IF kind = "req" THEN req_handles ELSE stream_handles

\* (a loop that would give up a send that has to wait)
AfterSendNoWait(kind, w) ==
    /\ cur' = w.cur
    /\ pc' = "select"
    /\ IF kind = "req"
       THEN Settle(w.reg, stream_handles, w.hs)
       ELSE Settle(req_handles, w.reg, w.hs)

\* a dispatch has run as far as it can: either it waits on a full channel
\* (the loop stays inside send()), or send() returned and the iteration ends
AfterSend(kind, w) ==
    /\ cur' = w.cur
    /\ IF w.blocked
       THEN /\ pc' = "send"
            /\ hs' = w.hs
            /\ IF kind = "req"
               THEN req_handles' = w.reg /\ UNCHANGED stream_handles
               ELSE stream_handles' = w.reg /\ UNCHANGED req_handles
       ELSE /\ pc' = "select"
            /\ IF kind = "req"
               THEN Settle(w.reg, stream_handles, w.hs)
               ELSE Settle(req_handles, w.reg, w.hs)

\* a frame that is dropped before any dispatch
Dropped(frame) ==
    /\ cur' = [NoDispatch EXCEPT !.kind = "dropped", !.frame = frame, !.refs = 1]
    /\ Settle(req_handles, stream_handles, hs)
    /\ UNCHANGED pc

\* ClientSocketManager::handle_req_message
handle_req_message(frame) ==
    LET r == parse_ids(frame.buf) IN
    IF Live >= arena_size THEN NoMemory(frame)
    ELSE IF ~r.ok THEN Dropped(frame)
    ELSE AfterSend("req", PrefixSend(req_handles, hs,
                                     NewDispatch("req", frame, r.ids, req_handles)))

\* the address check of handle_stream_message: the bytes before the first
\* space are the instance id
AddrAny(buf, pos) == TRUE
AddrIsOurs(buf, pos) == SubSeq(buf, 1, pos - 1) = conf.instance_id

\* ClientSocketManager::handle_stream_message
handle_stream_message(frame) ==
    LET pos == FirstSpace(frame.buf) IN
    IF Live >= arena_size THEN NoMemory(frame)
    ELSE IF pos = 0 THEN Dropped(frame)
    ELSE IF ~AddrIsOurs(frame.buf, pos) THEN Dropped(frame)
    ELSE LET r == parse_ids(SubSeq(frame.buf, pos + 1, Len(frame.buf))) IN
         IF ~r.ok THEN Dropped(frame)
         ELSE AfterSend("stream", PrefixSend(stream_handles, hs,
                            NewDispatch("stream", frame, r.ids, stream_handles)))

\* Select9::R4, client_req.sock.recv_routed()
ClientReqSockRecv ==
    /\ flavor = "client"
    /\ pc = "select"
    /\ nframes < env.frames
    /\ nframes' = nframes + 1
    /\ \E buf \in env.payloads : handle_req_message(Frame(nframes + 1, buf, 0))
    /\ UNCHANGED << static, io, ret, callers, in_sock, owner, control, control_reply, inflight, specs_applied,
                    wire, nsends, nread, fifo, ghosts >> /\ Arena

\* Select9::R9, client_stream.in_.recv()
ClientInSockRecv ==
    /\ flavor = "client"
    /\ pc = "select"
    /\ nframes < env.frames
    /\ nframes' = nframes + 1
    /\ \E buf \in env.payloads : handle_stream_message(Frame(nframes + 1, buf, 0))
    /\ UNCHANGED << static, io, ret, callers, in_sock, owner, control, control_reply, inflight, specs_applied,
                    wire, nsends, nread, fifo, ghosts >> /\ Arena

\* the send a client dispatch waits on resolves: the worker made room, or
\* dropped its handle
ClientSendResume ==
    /\ flavor = "client"
    /\ pc = "send"
    /\ LET reg == RegOf(cur.kind)
           h == Node(reg, reg.list[cur.pos]).h
       IN  /\ SendState(hs, h) # "pending"
           /\ AfterSend(cur.kind, PrefixSend(reg, hs, cur))
    /\ UNCHANGED << static, io, ret, callers, in_sock, owner, control, control_reply, inflight, specs_applied,
                    counters, fifo, ghosts >> /\ Arena

---------------------------------------------------------------------------
(* The manager loop, server flavor *)

\* what the server stream registry looks like when the specs are applied:
\* its handles in list order, the stamp of the last frame received, and
\* whether apply_stream_specs succeeded
Snapshot(reg, ok) ==
    [n |-> RegLen(reg), at |-> nframes,
     entries |-> [i \in 1..Len(reg.list) |-> Node(reg, reg.list[i]).h],
     result |-> IF ok THEN "ok" ELSE "err"]

\* the entries of the request registry in list order
Entries(reg) ==
    [i \in 1..Len(reg.list) |-> << Node(reg, reg.list[i]).h, Node(reg, reg.list[i]).valid >>]
AllValid(reg) == \A i \in 1..Len(reg.list) : Node(reg, reg.list[i]).valid

\* the run of request dispatches over an unchanged registry starts anew
\* whenever an entry is added, invalidated or removed
Track == run_start' = IF Entries(req_handles') # Entries(req_handles)
                      THEN Len(sr_log') ELSE run_start

\* if !stream_socks.specs_applied
StreamAddAlways == TRUE
StreamAddAllowed == ~specs_applied

\* (a flag that is set only when the specs could be applied)
SpecsAppliedIfOk(result) == result

\* stream_socks.specs_applied = true, before apply_stream_specs is called:
\* whatever its result will be
SpecsApplied(result) == TRUE

\* Select8::R1, control_receiver.recv
ServerControl ==
    /\ flavor = "server"
    /\ pc = "select"
    /\ control # << >>
    /\ control' = Tail(control)
    /\ LET req == Head(control) IN
       CASE req.type = "Stop" ->
               /\ Stopped
               /\ UNCHANGED << specs_applied, ss, add_result >>
         [] req.type = "SetServerReq" ->
               /\ control_reply' = Append(control_reply, req.ok)
               /\ Settle(req_handles, stream_handles, hs)
               /\ UNCHANGED << pc, inflight, specs_applied, ss, add_result >>
         [] req.type = "SetServerStream" ->
               /\ specs_applied' = SpecsApplied(req.ok)
               /\ ss' = IF ss.result # "none" THEN ss ELSE Snapshot(stream_handles, req.ok)
               /\ control_reply' = Append(control_reply, req.ok)
               /\ Settle(req_handles, stream_handles, hs)
               /\ UNCHANGED << pc, inflight, add_result >>
         [] req.type = "AddServerReqHandle" ->
               /\ AddTo("req", req)
               /\ UNCHANGED << pc, inflight, control_reply, specs_applied, ss >>
         [] req.type = "AddServerStreamHandle" ->
               /\ IF StreamAddAllowed THEN AddTo("stream", req) ELSE Refuse(req, "specs")
               /\ UNCHANGED << pc, inflight, control_reply, specs_applied, ss >>
    /\ UNCHANGED << static, io, ret, callers, in_sock, owner, cur, counters, fifo, sr_log >> /\ Arena
    /\ Track

ServerReqHandlesRecvClosed ==
    /\ flavor = "server"
    /\ pc = "select"
    /\ SlotFree(req_send)
    /\ \E h \in Handles :
          /\ RecvClosed(req_handles, h, "out")
          /\ req_handles' = Invalidate(req_handles, KeyOf(req_handles, h))
    /\ UNCHANGED << static, io, ret, callers, in_sock, owner, control, control_reply, hs, stream_handles, inflight,
                    specs_applied, pc, cur, counters, fifo, sr_log, ss, add_result >> /\ Arena
    /\ Track

ServerStreamHandlesRecvClosed ==
    /\ flavor = "server"
    /\ pc = "select"
    /\ SlotFree(stream_out_send)
    /\ \E h \in Handles :
          /\ RecvClosed(stream_handles, h, "out")
          /\ stream_handles' = Invalidate(stream_handles, KeyOf(stream_handles, h))
    /\ UNCHANGED << static, io, ret, callers, in_sock, owner, control, control_reply, hs, req_handles, inflight,
                    specs_applied, pc, cur, counters, fifo, ghosts >> /\ Arena

\* Select8::R3, req_handles.recv(): req_send = Some(req_sock.send_to(header, msg))
ServerReqHandlesRecv ==
    /\ flavor = "server"
    /\ pc = "select"
    /\ SlotFree(req_send)
    /\ \E h \in ValidHandlesOf(req_handles) :
          /\ hs[h].out # << >>
          /\ req_send' = Some(Pop(hs[h].out).item)
          /\ lasthanded' = [lasthanded EXCEPT ![h].any = Pop(hs[h].out).item.n]
          /\ Settle(req_handles, stream_handles, [hs EXCEPT ![h].out = Pop(@).rest])
    /\ UNCHANGED << static, io, ret, callers, in_sock, owner, control, control_reply, stream_out_send,
                    stream_out_stream_send, specs_applied, pc, cur, counters,
                    lastgot, sr_log, ss, add_result >> /\ Arena
    /\ Track

\* Select8::R4, the req send completes
ServerReqSendDone ==
    /\ flavor = "server"
    /\ pc = "select"
    /\ ~IsNone(req_send)
    /\ \E res \in Outcomes :
          /\ req_send' = Cleared(req_send, res)
          /\ Noted("send", "req", res, req_send.v.n)
    /\ Settle(req_handles, stream_handles, hs)
    /\ UNCHANGED << static, ret, callers, in_sock, owner, control, control_reply, stream_out_send,
                    stream_out_stream_send, specs_applied, pc, cur, counters,
                    fifo, sr_log, ss, add_result >> /\ Arena
    /\ Track

\* Select8::R7, stream_handles.recv(): stream_out_send = Some(out.send(msg))
ServerStreamHandlesRecv ==
    /\ flavor = "server"
    /\ pc = "select"
    /\ SlotFree(stream_out_send)
    /\ \E h \in ValidHandlesOf(stream_handles) :
          /\ hs[h].out # << >>
          /\ stream_out_send' = Some(Pop(hs[h].out).item)
          /\ lasthanded' = [lasthanded EXCEPT ![h].any = Pop(hs[h].out).item.n]
          /\ Settle(req_handles, stream_handles, [hs EXCEPT ![h].out = Pop(@).rest])
    /\ UNCHANGED << static, io, ret, callers, in_sock, owner, control, control_reply, req_send,
                    stream_out_stream_send, specs_applied, pc, cur, counters,
                    lastgot, sr_log, ss, add_result >> /\ Arena
    /\ Track

\* Select8::R8, the out send completes
ServerStreamOutSendDone ==
    /\ flavor = "server"
    /\ pc = "select"
    /\ ~IsNone(stream_out_send)
    /\ \E res \in Outcomes :
          /\ stream_out_send' = Cleared(stream_out_send, res)
          /\ Noted("send", "out", res, stream_out_send.v.n)
    /\ Settle(req_handles, stream_handles, hs)
    /\ UNCHANGED << static, ret, callers, in_sock, owner, control, control_reply, req_send,
                    stream_out_stream_send, specs_applied, pc, cur, counters,
                    fifo, sr_log, ss, add_result >> /\ Arena
    /\ Track

\* Select8::R2 / R5 / R6 with Err(e): the error is logged
ServerSockRecvErr ==
    /\ flavor = "server"
    /\ pc = "select"
    /\ env.faults
    /\ \E sock \in {"req", "in", "in_stream"} : Noted("recv", sock, "err", 0)
    /\ Settle(req_handles, stream_handles, hs)
    /\ UNCHANGED << static, ret, callers, in_sock, owner, control, control_reply, inflight,
                    specs_applied, pc, cur, counters, fifo, sr_log, ss, add_result >> /\ Arena
    /\ Track

\* ServerReqHandles::send: the nth node if valid, else the latest valid node
\* before it; -1 when no node is selected
RECURSIVE SelectFrom(_, _, _, _)
SelectFrom(reg, i, skip, selected) ==
    IF i > Len(reg.list) THEN selected
    ELSE LET sel == IF Node(reg, reg.list[i]).valid THEN reg.list[i] ELSE selected IN
         IF skip = 0 THEN sel
         ELSE SelectFrom(reg, i + 1, skip - 1, sel)

SelectFirst(reg) == SelectFrom(reg, 1, 0, -1)
\* (a selection without the fallback)
SelectStrict(reg) ==
    IF reg.send_index < Len(reg.list) /\ Node(reg, reg.list[reg.send_index + 1]).valid
    THEN reg.list[reg.send_index + 1]
    ELSE -1
Select(reg) == SelectFrom(reg, 1, reg.send_index, -1)

\* (a send that advances send_index also when there is no entry)
ServerReqSendNoCheck(reg, H, c) ==
    LET key == Select(reg)
        reg1 == [reg EXCEPT !.send_index = @ + 1]
    IN  IF key = -1
        THEN [reg |-> reg1, hs |-> H, cur |-> c, blocked |-> FALSE, panicked |-> FALSE]
        ELSE [reg |-> reg1, hs |-> H, cur |-> [c EXCEPT !.pos = key],
              blocked |-> TRUE, panicked |-> FALSE]

\* ServerReqHandles::send up to the send on the selected entry
ServerReqSend(reg, H, c) ==
    IF RegLen(reg) = 0
    THEN [reg |-> reg, hs |-> H, cur |-> c, blocked |-> FALSE, panicked |-> FALSE]
    ELSE LET key == Select(reg)
             reg1 == [reg EXCEPT !.send_index = (@ + 1) % RegLen(reg)]
         IN  IF key = -1
             THEN [reg |-> reg1, hs |-> H, cur |-> c, blocked |-> FALSE, panicked |-> FALSE]
             ELSE [reg |-> reg1, hs |-> H, cur |-> [c EXCEPT !.pos = key],
                   blocked |-> TRUE, panicked |-> FALSE]

\* (a send that hands the message over without its header)
ServerReqSendBare(reg, H, c) ==
    LET h == Node(reg, c.pos).h IN
    IF SendState(H, h) = "err"
    THEN [reg |-> Invalidate(reg, c.pos), hs |-> H,
          cur |-> [c EXCEPT !.refs = AfterFailedSend(@)],
          blocked |-> FALSE, panicked |-> FALSE]
    ELSE [reg |-> reg, hs |-> [H EXCEPT ![h].inq = Append(@, [c.frame EXCEPT !.header = << >>])],
          cur |-> [c EXCEPT !.got = Append(@, h), !.refs = @ + 1],
          blocked |-> FALSE, panicked |-> FALSE]

\* the send on the selected entry resolves
ServerReqSendResolve(reg, H, c) ==
    LET h == Node(reg, c.pos).h IN
    IF SendState(H, h) = "err"
    THEN [reg |-> Invalidate(reg, c.pos), hs |-> H,
          cur |-> [c EXCEPT !.refs = AfterFailedSend(@)],
          blocked |-> FALSE, panicked |-> FALSE]
    ELSE [reg |-> reg, hs |-> [H EXCEPT ![h].inq = Append(@, c.frame)],
          cur |-> [c EXCEPT !.got = Append(@, h), !.refs = @ + 1],
          blocked |-> FALSE, panicked |-> FALSE]

\* the slab key ServerStreamHandles::send computes for an id:
\* hash(id.id) % self.nodes.len()
HashKey(reg, id) == hash(id) % RegLen(reg)

\* ServerStreamHandles::send from the id at c.pos on, up to the first send
\* that has to wait; indexing a vacant slab slot panics
RECURSIVE HashSend(_, _, _)
HashSend(reg, H, c) ==
    IF RegLen(reg) = 0 \/ c.pos > Len(c.ids)
    THEN [reg |-> reg, hs |-> H, cur |-> c, blocked |-> FALSE, panicked |-> FALSE]
    ELSE LET nkey == HashKey(reg, c.ids[c.pos]) IN
         IF ~Node(reg, nkey).occ
         THEN [reg |-> reg, hs |-> H, cur |-> c, blocked |-> FALSE, panicked |-> TRUE]
         ELSE LET p == Node(reg, nkey)
                  st == SendState(H, p.h)
              IN  IF p.valid
                  THEN IF st = "err"
                       THEN HashSend(Invalidate(reg, nkey), H,
                                     [c EXCEPT !.pos = @ + 1, !.refs = AfterFailedSend(@)])
                       ELSE IF st = "ok"
                       THEN HashSend(reg, [H EXCEPT ![p.h].inq = Append(@, c.frame)],
                                     [c EXCEPT !.pos = @ + 1, !.got = Append(@, p.h),
                                               !.refs = @ + 1])
                       ELSE [reg |-> reg, hs |-> H, cur |-> c, blocked |-> TRUE,
                             panicked |-> FALSE]
                  ELSE HashSend(reg, H, [c EXCEPT !.pos = @ + 1])

\* a server dispatch has run as far as it can
AfterServerSend(kind, w) ==
    /\ cur' = w.cur
    /\ IF w.panicked THEN Panicked
       ELSE IF w.blocked
       THEN /\ pc' = "send"
            /\ hs' = w.hs
            /\ IF kind = "sreq"
               THEN req_handles' = w.reg /\ UNCHANGED stream_handles
               ELSE stream_handles' = w.reg /\ UNCHANGED req_handles
       ELSE /\ pc' = "select"
            /\ IF kind = "sreq"
               THEN Settle(w.reg, stream_handles, w.hs)
               ELSE Settle(req_handles, w.reg, w.hs)

\* the request dispatches so far: the handle each frame was enqueued on, 0
\* when it was enqueued on none
Logged(w) ==
    IF w.blocked THEN sr_log
    ELSE Append(sr_log, IF w.cur.got = << >> THEN 0 ELSE w.cur.got[1])

\* ServerSocketManager::handle_req_message; a send that can resolve at once does
ServerHandleReq(frame) ==
    LET w0 == ServerReqSend(req_handles, hs, NewDispatch("sreq", frame, << >>, req_handles))
        w == IF w0.blocked /\ SendState(hs, Node(w0.reg, w0.cur.pos).h) # "pending"
             THEN ServerReqSendResolve(w0.reg, w0.hs, w0.cur)
             ELSE w0
    IN  IF Live >= arena_size
        THEN NoMemory(frame) /\ UNCHANGED sr_log
        ELSE /\ AfterServerSend("sreq", w)
             /\ sr_log' = Logged(w)

\* ServerSocketManager::handle_stream_message
ServerHandleStream(frame) ==
    LET r == parse_ids(frame.buf) IN
    IF Live >= arena_size THEN NoMemory(frame)
    ELSE IF ~r.ok THEN Dropped(frame)
    ELSE AfterServerSend("sstream", HashSend(stream_handles, hs,
                            NewDispatch("sstream", frame, r.ids, stream_handles)))

\* Select8::R2, req_sock.recv_routed()
ServerReqSockRecv ==
    /\ flavor = "server"
    /\ pc = "select"
    /\ nframes < env.frames
    /\ nframes' = nframes + 1
    /\ \E header \in env.headers : ServerHandleReq(Frame(nframes + 1, << BT >>, header))
    /\ UNCHANGED << static, io, ret, callers, in_sock, owner, control, control_reply, inflight,
                    specs_applied, wire, nsends, nread, fifo, ss, add_result >> /\ Arena
    /\ Track

\* Select8::R5, stream_socks.in_.recv()
ServerInSockRecv ==
    /\ flavor = "server"
    /\ pc = "select"
    /\ nframes < env.frames
    /\ nframes' = nframes + 1
    /\ \E buf \in env.payloads : ServerHandleStream(Frame(nframes + 1, buf, 0))
    /\ UNCHANGED << static, io, ret, callers, in_sock, owner, control, control_reply, inflight,
                    specs_applied, wire, nsends, nread, fifo, sr_log, ss, add_result >> /\ Arena
    /\ Track

\* Select8::R6, stream_socks.in_stream.recv_routed(): the header is discarded
ServerInStreamSockRecv ==
    /\ flavor = "server"
    /\ pc = "select"
    /\ nframes < env.frames
    /\ nframes' = nframes + 1
    /\ \E buf \in env.payloads : ServerHandleStream(Frame(nframes + 1, buf, 0))
    /\ UNCHANGED << static, io, ret, callers, in_sock, owner, control, control_reply, inflight,
                    specs_applied, wire, nsends, nread, fifo, sr_log, ss, add_result >> /\ Arena
    /\ Track

\* the send a server dispatch waits on resolves
ServerSendResume ==
    /\ flavor = "server"
    /\ pc = "send"
    /\ IF cur.kind = "sreq"
       THEN /\ SendState(hs, Node(req_handles, cur.pos).h) # "pending"
            /\ LET w == ServerReqSendResolve(req_handles, hs, cur) IN
               /\ AfterServerSend("sreq", w)
               /\ sr_log' = Logged(w)
       ELSE /\ SendState(hs, Node(stream_handles,
                                  HashKey(stream_handles, cur.ids[cur.pos])).h) # "pending"
            /\ AfterServerSend("sstream", HashSend(stream_handles, hs, cur))
            /\ UNCHANGED sr_log
    /\ UNCHANGED << static, io, ret, callers, in_sock, owner, control, control_reply, inflight,
                    specs_applied, counters, fifo, ss, add_result >> /\ Arena
    /\ Track

---------------------------------------------------------------------------
(* Handle facades, called by the workers *)

\* Sender::try_send on the sub-channel ch of handle h
TrySendState(h, ch) ==
    IF hs[h].pipe = "dropped" THEN "broken"
    ELSE IF Len(hs[h][ch]) >= conf.handle_bound THEN "full"
    ELSE "ok"

\* (a Full that does not give the message back)
TrySendLoses(h, ch, msg) ==
    [res |-> IF TrySendState(h, ch) = "broken" THEN "broken_pipe" ELSE TrySendState(h, ch),
     item |-> NoItem]

\* what send() returns: Ok(()), Err(SendError::Full(msg)) with the message
\* that was passed in, or Err(SendError::Io(BrokenPipe))
TrySend(h, ch, msg) ==
    CASE TrySendState(h, ch) = "ok" -> [res |-> "ok", item |-> NoItem]
      [] TrySendState(h, ch) = "full" -> [res |-> "full", item |-> msg]
      [] TrySendState(h, ch) = "broken" -> [res |-> "broken_pipe", item |-> NoItem]

\* what recv() returns: Ok(msg) with the oldest queued frame, or
\* Err(WouldBlock), or Err(BrokenPipe) once the manager's end is gone
TryRecv(h) ==
    IF hs[h].inq # << >> THEN [res |-> "ok", item |-> Pop(hs[h].inq).item]
    ELSE IF hs[h].pipe = "dropped" THEN [res |-> "broken_pipe", item |-> NoItem]
    ELSE [res |-> "would_block", item |-> NoItem]

\* a facade send: Ok enqueues the message, Full and BrokenPipe change nothing
FacadeSend(h, ch, addr, header) ==
    LET msg == Msg(nsends + 1, h, addr, header) IN
    /\ hs[h].worker = "open"
    /\ ret' = IF env.watch THEN Call("send", h, ch, msg, TrySend(h, ch, msg)) ELSE ret
    /\ IF TrySendState(h, ch) = "ok"
       THEN /\ nsends < env.sends
            /\ nsends' = nsends + 1
            /\ hs' = [hs EXCEPT ![h][ch] = Append(@, msg)]
       ELSE UNCHANGED << hs, nsends >>
    /\ UNCHANGED << static, io, callers, in_sock, owner, control, control_reply, req_handles, stream_handles,
                    inflight, specs_applied, pc, cur, wire, nframes, nread, fifo, ghosts >> /\ Arena

\* ClientReqHandle::send
ClientReqHandle_send ==
    \E h \in Handles : hs[h].kind = "req" /\ FacadeSend(h, "out", << >>, << >>)

\* ClientStreamHandle::send_to_any
ClientStreamHandle_send_to_any ==
    \E h \in Handles : hs[h].kind = "stream" /\ FacadeSend(h, "out", << >>, << >>)

\* capacity of the ArrayVec<u8, 64> that carries the address
ADDR_MAX == 64

\* (a capacity check that is off by one)
AddrFitsLt(addr) == Len(addr) < ADDR_MAX

\* a.try_extend_from_slice(addr).is_ok()
AddrFits(addr) == Len(addr) <= ADDR_MAX

\* return Err(SendError::Io(InvalidInput)) before the channel is touched
Rejected(h, addr) ==
    /\ hs[h].worker = "open"
    /\ ret' = IF env.watch
              THEN Call("send", h, "out_addr", Msg(nsends + 1, h, addr, << >>),
                        [res |-> "invalid_input", item |-> NoItem])
              ELSE ret
    /\ UNCHANGED << static, io, callers, in_sock, owner, control, control_reply, hs, req_handles, stream_handles,
                    inflight, specs_applied, pc, cur, counters, fifo, ghosts >> /\ Arena

\* ClientStreamHandle::send_to_addr
ClientStreamHandle_send_to_addr ==
    \E h \in Handles, addr \in env.addrs :
       /\ hs[h].kind = "stream"
       /\ IF AddrFits(addr) THEN FacadeSend(h, "out_addr", addr, << >>)
          ELSE Rejected(h, addr)

\* ServerReqHandle::send(header, msg)
ServerReqHandle_send ==
    \E h \in Handles, header \in env.headers :
       hs[h].kind = "sreq" /\ FacadeSend(h, "out", << >>, header)

\* ServerStreamHandle::send
ServerStreamHandle_send ==
    \E h \in Handles : hs[h].kind = "sstream" /\ FacadeSend(h, "out", << >>, << >>)

\* the facade recv of any handle: Receiver::try_recv on its inbound channel
Handle_recv ==
    \E h \in Handles \ env.idle :
       /\ hs[h].worker = "open"
       /\ ret' = IF env.watch THEN Call("recv", h, "inq", NoItem, TryRecv(h)) ELSE ret
       /\ IF hs[h].inq # << >>
          THEN /\ hs' = [hs EXCEPT ![h].inq = Pop(@).rest]
               /\ lastgot' = [lastgot EXCEPT ![h] = Pop(hs[h].inq).item.seq]
          ELSE UNCHANGED << hs, lastgot >>
       /\ UNCHANGED << static, io, callers, in_sock, owner, control, control_reply, req_handles,
                       stream_handles, inflight, specs_applied, pc, cur, counters,
                       lasthanded, ghosts >> /\ Arena

\* a worker drops a frame it kept
Handle_release ==
    /\ env.refs
    /\ \E h \in Handles : \E k \in arena.held[h] :
          arena' = [arena EXCEPT !.held[h] = @ \ { k }, !.rc[k] = @ - 1]
    /\ UNCHANGED << flavor, conf, env, io, ret, callers, in_sock, owner, control, control_reply,
                    hs, req_handles, stream_handles, inflight, specs_applied, pc, cur,
                    counters, fifo, ghosts >>

\* the worker drops its handle
Handle_drop ==
    /\ Cardinality({ g \in Handles : hs[g].worker = "dropped" }) < env.drops
    /\ \E h \in Handles :
          /\ hs[h].worker = "open"
          /\ hs' = [hs EXCEPT ![h] = IF @.pipe = "dropped"
                                     THEN [@ EXCEPT !.worker = "dropped", !.inq = << >>]
                                     ELSE [@ EXCEPT !.worker = "dropped"]]
          /\ UNCHANGED << static, io, ret, callers, in_sock, owner, control, control_reply, req_handles,
                          stream_handles, inflight, specs_applied, pc, cur, counters,
                          fifo, ghosts >> /\ Arena

---------------------------------------------------------------------------
(* Specifications *)

\* The client manager dispatching request frames: the owner registers request
\* handles with prefixes, the peer of the req socket sends frames, the
\* workers receive and may drop their handles.
Init == InitWith("client", Conf(1, 1, 1),
                 Env(MaxHandles, Prefixes, MaxFrames, Payloads, 0, MaxDrops, 0))

Next ==
    \/ client_req_handle
    \/ ClientControl
    \/ ReqHandlesRecvClosed
    \/ ClientReqSockRecv
    \/ ClientSendResume
    \/ Handle_recv
    \/ Handle_drop

Spec == Init /\ [][Next]_vars

\* The client manager dispatching frames of the in socket to stream handles.
StreamInit == InitWith("client", Conf(1, 1, 1),
                       Env(MaxHandles, Prefixes, MaxFrames, StreamFrames, 0, MaxDrops, 0))

StreamNext ==
    \/ client_stream_handle
    \/ ClientControl
    \/ StreamHandlesRecvAnyClosed
    \/ StreamHandlesRecvAddrClosed
    \/ ClientInSockRecv
    \/ ClientSendResume
    \/ Handle_recv
    \/ Handle_drop

StreamSpec == StreamInit /\ [][StreamNext]_vars

\* The server manager dispatching requests round-robin.
ServerInit == InitWith("server", Conf(1, 1, 1),
                       Env(HANDLES_MAX, { << >> }, ServerFrames, { << BT >> }, 0, HANDLES_MAX, 0))

ServerNext ==
    \/ server_req_handle
    \/ ServerControl
    \/ ServerReqHandlesRecvClosed
    \/ ServerReqSockRecv
    \/ ServerSendResume
    \/ Handle_recv
    \/ Handle_drop

ServerSpec == ServerInit /\ [][ServerNext]_vars

\* The same, with the handles and requests of test_server_req.
OrderInit == InitWith("server", Conf(1, 1, 1),
                      Env(MaxHandles, { << >> }, MaxFrames, { << BT >> }, 0, MaxHandles, 0))

OrderSpec == OrderInit /\ [][ServerNext]_vars

\* The server manager dispatching stream frames by the hash of their ids,
\* before and after the owner applies the stream specs.
ServerStreamInit ==
    InitWith("server", Conf(1, 1, 1),
             Env(HANDLES_MAX, { << >> }, MaxFrames, ServerPayloads, 0, HANDLES_MAX, 0))

ServerStreamNext ==
    \/ server_stream_handle
    \/ set_server_stream_specs
    \/ control_req_reply
    \/ ServerControl
    \/ ServerStreamHandlesRecvClosed
    \/ ServerInSockRecv
    \/ ServerInStreamSockRecv
    \/ ServerSendResume
    \/ Handle_recv
    \/ Handle_drop

ServerStreamSpec == ServerStreamInit /\ [][ServerStreamNext]_vars

\* Either manager taking control requests: the owner creates one handle
\* more than the handle bound allows, some workers drop handles, and (server) the
\* owner applies the stream specs at some point.
ControlInit ==
    \E f \in {"client", "server"} :
        InitWith(f, Conf(1, 1, 1),
                 Env(HANDLES_MAX + 1, { << >> }, 0, {}, 0, MaxDrops, 0))

ControlNext ==
    \/ client_req_handle
    \/ client_stream_handle
    \/ server_req_handle
    \/ server_stream_handle
    \/ set_server_stream_specs
    \/ control_req_reply
    \/ ClientControl
    \/ ServerControl
    \/ ReqHandlesRecvClosed
    \/ StreamHandlesRecvAnyClosed
    \/ StreamHandlesRecvAddrClosed
    \/ ServerReqHandlesRecvClosed
    \/ ServerStreamHandlesRecvClosed
    \/ Handle_drop

ControlSpec == ControlInit /\ [][ControlNext]_vars

\* Either manager moving the messages of its workers to its sockets, and
\* the client manager moving frames of the in socket to the workers.
TrafficInit ==
    \E f \in {"client", "server"} :
        InitWith(f, Conf(1, 1, HandleBound),
                 Env(Workers, { << >> }, MaxFrames,
                     { InstanceId \o << SP, BT, 1, SEP >> }, MaxSends, 0, 0))

TrafficNext ==
    \/ client_req_handle
    \/ client_stream_handle
    \/ server_req_handle
    \/ server_stream_handle
    \/ ClientControl
    \/ ServerControl
    \/ ClientReqHandle_send
    \/ ClientStreamHandle_send_to_any
    \/ ClientStreamHandle_send_to_addr
    \/ ServerReqHandle_send
    \/ ServerStreamHandle_send
    \/ ReqHandlesRecv
    \/ ReqSendDone
    \/ StreamHandlesRecvAny
    \/ StreamOutSendDone
    \/ StreamHandlesRecvAddr
    \/ StreamOutStreamSendDone
    \/ ServerReqHandlesRecv
    \/ ServerReqSendDone
    \/ ServerStreamHandlesRecv
    \/ ServerStreamOutSendDone
    \/ PeerRead
    \/ ClientInSockRecv
    \/ Handle_recv

TrafficSpec == TrafficInit /\ [][TrafficNext]_vars

\* The flow-control run of test_client_send_flow: retained 1, hwm 1,
\* handle_bound 1, one stream handle whose worker keeps calling
\* send_to_addr, and a peer that starts reading only after four messages
\* were accepted.  Frames of the in socket keep arriving meanwhile.
FlowInit ==
    InitWith("client", Conf(1, 1, 1),
             Env(1, { << >> }, MaxFrames, { InstanceId \o << SP, BT, 1, SEP >> },
                 FlowSends, 0, 4))

FlowNext ==
    \/ client_stream_handle
    \/ ClientControl
    \/ ClientStreamHandle_send_to_addr
    \/ StreamHandlesRecvAddr
    \/ StreamOutStreamSendDone
    \/ PeerRead
    \/ ClientInSockRecv
    \/ ClientSendResume
    \/ Handle_recv

\* the owner, the worker and the manager thread keep running; nothing is
\* assumed of the peers
FlowFairness ==
    /\ WF_vars(client_stream_handle)
    /\ WF_vars(ClientControl)
    /\ WF_vars(ClientStreamHandle_send_to_addr)
    /\ WF_vars(StreamHandlesRecvAddr)
    /\ WF_vars(StreamOutStreamSendDone)
    /\ WF_vars(ClientSendResume)
    /\ WF_vars(Handle_recv)

FlowSpec == FlowInit /\ [][FlowNext]_vars /\ FlowFairness

\* Backpressure: request handles whose workers have stopped reading (they
\* never call recv, and keep their handles), frames that match every
\* prefix, and workers that keep calling send.  handle_bound is 1 as in
\* test_client_send_flow; the workers try one send more per handle than the
\* MaxSends the loop may have taken before it suspends.
BackInit ==
    InitWith("client", Conf(1, 1, 1),
             Env(MaxHandles, { << >> }, MaxFrames, { << BT, 1, 3, SEP >> },
                 MaxHandles + MaxSends, 0, 0))

BackNext ==
    \/ client_req_handle
    \/ ClientControl
    \/ ClientReqSockRecv
    \/ ClientReqHandle_send
    \/ ReqHandlesRecv
    \/ ReqSendDone

\* Select9::R4 is ready whenever the loop is at its selector and the peer
\* of the req socket has sent a frame
ReqSockReadable == flavor = "client" /\ pc = "select" /\ nframes < env.frames

\* the peer of the req socket keeps sending and the workers keep sending.
\* The first conjunct is WF_vars(ClientReqSockRecv) with the enabling
\* condition of the branch written out.
BackFairness ==
    /\ \/ []<>(~ReqSockReadable)
       \/ []<><<ClientReqSockRecv>>_vars
    /\ WF_vars(ClientReqHandle_send)

BackSpec == BackInit /\ [][BackNext]_vars /\ BackFairness

\* The arena: hwm 1 and nothing retained, one request handle whose channel
\* is as deep as the arena or holds one frame, and one frame more than the
\* arena has slots, each with ids or without.  The worker reads when it likes.
ArenaInit ==
    \E handle_bound \in { 1, HANDLES_MAX + 1 } :
        InitWith("client", Conf(0, 1, handle_bound),
                 Env(1, { << >> }, HANDLES_MAX + 2, { << BT, 1, 3, SEP >>, << BT >> },
                     0, 0, 0))

ArenaNext ==
    \/ client_req_handle
    \/ ClientControl
    \/ ClientReqSockRecv
    \/ ClientSendResume
    \/ Handle_recv

ArenaSpec == ArenaInit /\ [][ArenaNext]_vars

\* Shutdown: the owner registers request handles and at some point drops the
\* manager, while frames arrive, workers send and read as they like and keep
\* their handles.  The manager thread and the owner keep running; nothing is
\* assumed of the workers or of the peers.
ShutdownInit ==
    InitWith("client", Conf(1, 1, 1),
             Env(MaxHandles, { << >> }, MaxFrames, { << BT, 1, 3, SEP >> },
                 MaxSends, 0, 0))

ShutdownNext ==
    \/ client_req_handle
    \/ drop_manager
    \/ drop_joined
    \/ ClientControl
    \/ ClientReqSockRecv
    \/ ClientSendResume
    \/ ReqHandlesRecv
    \/ ReqSendDone
    \/ ClientReqHandle_send
    \/ Handle_recv

ShutdownFairness ==
    /\ WF_vars(drop_joined)
    /\ WF_vars(ClientControl)
    /\ WF_vars(ClientSendResume)
    /\ WF_vars(ReqHandlesRecv)
    /\ WF_vars(ReqSendDone)

ShutdownSpec == ShutdownInit /\ [][ShutdownNext]_vars /\ ShutdownFairness

\* The same, with the selector taking its first ready branch: a request on
\* the control channel is received before anything else the loop could do.
StopNext ==
    \/ client_req_handle
    \/ drop_manager
    \/ drop_joined
    \/ ClientControl
    \/ ClientSendResume
    \/ control = << >> /\ ClientReqSockRecv
    \/ control = << >> /\ ReqHandlesRecv
    \/ control = << >> /\ ReqSendDone
    \/ ClientReqHandle_send
    \/ Handle_recv

StopSpec == ShutdownInit /\ [][StopNext]_vars /\ ShutdownFairness

\* Disconnects: either manager with request handles whose workers read as
\* they like, and some of which drop their handles, while frames arrive.
DisconnectInit ==
    \E f \in {"client", "server"} :
        InitWith(f, Conf(1, 1, 1),
                 Env(MaxHandles, { << >> }, MaxFrames, { << BT, 1, 3, SEP >> },
                     0, MaxDrops, 0))

DisconnectNext ==
    \/ client_req_handle
    \/ server_req_handle
    \/ ClientControl
    \/ ServerControl
    \/ ReqHandlesRecvClosed
    \/ ServerReqHandlesRecvClosed
    \/ ClientReqSockRecv
    \/ ServerReqSockRecv
    \/ ClientSendResume
    \/ ServerSendResume
    \/ Handle_recv
    \/ Handle_drop

DisconnectSpec == DisconnectInit /\ [][DisconnectNext]_vars

\* The same for the other direction: the workers send, and some drop their
\* handles; no frame arrives.
RecvInit ==
    \E f \in {"client", "server"} :
        InitWith(f, Conf(1, 1, 1),
                 Env(MaxHandles, { << >> }, 0, {}, MaxSends, MaxDrops, 0))

RecvNext ==
    \/ client_req_handle
    \/ server_req_handle
    \/ ClientControl
    \/ ServerControl
    \/ ReqHandlesRecvClosed
    \/ ServerReqHandlesRecvClosed
    \/ ReqHandlesRecv
    \/ ServerReqHandlesRecv
    \/ ReqSendDone
    \/ ServerReqSendDone
    \/ ClientReqHandle_send
    \/ ServerReqHandle_send
    \/ Handle_drop

RecvSpec == RecvInit /\ [][RecvNext]_vars

\* The facades: the traffic of either manager and one worker, with channels of depth
\* HandleBound, the results of the workers' calls recorded, and the owner
\* dropping the manager at some point.
FacadeInit ==
    \E f \in {"client", "server"} :
        InitWith(f, Conf(1, 1, HandleBound),
                 Watched(Env(1, { << >> }, MaxFrames,
                             { InstanceId \o << SP, BT, 1, SEP >> }, MaxSends, 0, 0)))

FacadeNext == TrafficNext \/ drop_manager \/ drop_joined

FacadeSpec == FacadeInit /\ [][FacadeNext]_vars

\* Addresses: one client stream handle whose worker addresses messages to a
\* short address, to one of ADDR_MAX bytes and to one a byte longer, with a
\* channel of depth 1 and the owner dropping the manager at some point.
AddrInit ==
    InitWith("client", Conf(1, 1, 1),
             Addressing(Watched(Env(1, { << >> }, 0, {}, MaxSends, 0, 0)),
                        { PeerId, [i \in 1..ADDR_MAX |-> BT],
                          [i \in 1..(ADDR_MAX + 1) |-> BT] }))

AddrNext ==
    \/ client_stream_handle
    \/ ClientControl
    \/ ClientStreamHandle_send_to_addr
    \/ StreamHandlesRecvAddr
    \/ StreamOutStreamSendDone
    \/ PeerRead
    \/ drop_manager
    \/ drop_joined

AddrSpec == AddrInit /\ [][AddrNext]_vars

\* Envelopes: the server manager with request handles, requests arriving
\* with either of two headers and workers replying with either, the results
\* of the workers' calls recorded.
EnvelopeInit ==
    InitWith("server", Conf(1, 1, 1),
             Heading(Watched(Env(2, { << >> }, MaxFrames, { << BT >> }, 1, 0, 0)),
                     { ReqHeader, PeerId \o ReqHeader }))

EnvelopeNext ==
    \/ server_req_handle
    \/ ServerControl
    \/ ServerReqSockRecv
    \/ ServerSendResume
    \/ ServerReqHandlesRecv
    \/ ServerReqSendDone
    \/ ServerReqHandle_send
    \/ Handle_recv

EnvelopeSpec == EnvelopeInit /\ [][EnvelopeNext]_vars

\* The control inlet of the server manager shared by Callers threads, each of
\* which creates handles and applies stream specs, until the manager is
\* dropped.
SharedInit ==
    InitWith("server", Conf(1, 1, 1), Env(2, { << >> }, 0, {}, 0, 0, 0))

SharedNext ==
    \/ \E t \in Threads : server_handle_call(t)
    \/ \E t \in Threads : server_specs_call(t)
    \/ \E t \in Threads : control_lock(t)
    \/ \E t \in Threads : control_send(t)
    \/ \E t \in Threads : control_req_send(t)
    \/ \E t \in Threads : control_req_recv(t)
    \/ drop_shared
    \/ drop_joined
    \/ ServerControl

SharedSpec == SharedInit /\ [][SharedNext]_vars

\* Two request handles with the empty prefix: the worker of the first keeps
\* reading and sends, the worker of the second has stopped reading.  The
\* manager thread runs fairly and the peer of the req socket keeps sending.
IsolationInit ==
    InitWith("client", Conf(1, 1, 1),
             Stalling(Env(2, { << >> }, MaxFrames + 1, { << BT, 1, 3, SEP >> },
                          MaxSends, 0, 0),
                      { 2 }))

IsolationNext ==
    \/ client_req_handle
    \/ ClientControl
    \/ ClientReqSockRecv
    \/ ClientSendResume
    \/ ReqHandlesRecv
    \/ ReqSendDone
    \/ ClientReqHandle_send
    \/ Handle_recv

IsolationFairness ==
    /\ \/ []<>(~ReqSockReadable)
       \/ []<><<ClientReqSockRecv>>_vars
    /\ WF_vars(ClientControl)
    /\ WF_vars(ClientSendResume)
    /\ WF_vars(ReqHandlesRecv)
    /\ WF_vars(ReqSendDone)
    /\ WF_vars(Handle_recv)

IsolationSpec == IsolationInit /\ [][IsolationNext]_vars /\ IsolationFairness

\* Pipe ends the manager gives up: the owner creates one handle more than
\* HANDLES_MAX (client request handles, with a frame arriving for them, or
\* server stream handles, also after the stream specs are applied) and
\* drops the manager at some point; the workers call send and recv
\* throughout, their results recorded.
PipeInit ==
    \E f \in {"client", "server"} :
        InitWith(f, Conf(1, 1, 1),
                 Watched(Env(HANDLES_MAX + 1, { << >> }, 1, { << BT, 1, 3, SEP >> }, 1, 0, 0)))

PipeNext ==
    \/ client_req_handle
    \/ server_stream_handle
    \/ set_server_stream_specs
    \/ control_req_reply
    \/ ClientControl
    \/ ServerControl
    \/ ClientReqSockRecv
    \/ ClientReqHandle_send
    \/ ServerStreamHandle_send
    \/ Handle_recv
    \/ drop_manager
    \/ drop_joined

PipeSpec == PipeInit /\ [][PipeNext]_vars

\* Subscription: the owner creates client stream handles and applies the
\* stream specs, successfully or not, any number of times; frames arrive on the in socket and the workers read.  The manager thread
\* and the owner run fairly and the transport delivers the subscription.
SubscribeInit ==
    InitWith("client", Conf(1, 1, 1),
             Env(1, { << >> }, MaxFrames, { InstanceId \o << SP, BT, 1, 3, SEP >> }, 0, 0, 0))

SubscribeNext ==
    \/ client_stream_handle
    \/ set_client_stream_specs
    \/ control_req_reply
    \/ ClientControl
    \/ PeerSubscribed
    \/ ClientInSockRecv
    \/ ClientSendResume
    \/ Handle_recv

SubscribeFairness ==
    /\ WF_vars(ClientControl)
    /\ WF_vars(control_req_reply)
    /\ WF_vars(PeerSubscribed)

SubscribeSpec == SubscribeInit /\ [][SubscribeNext]_vars /\ SubscribeFairness

\* Threads creating handles while the loop dispatches: two requests arrive
\* and the workers read when they like.
InletInit ==
    InitWith("server", Conf(1, 1, 1), Env(3, { << >> }, 2, { << BT >> }, 0, 0, 0))

InletNext ==
    \/ \E t \in Threads : server_handle_call(t)
    \/ \E t \in Threads : control_lock(t)
    \/ \E t \in Threads : control_send(t)
    \/ ServerControl
    \/ ServerReqSockRecv
    \/ ServerSendResume
    \/ Handle_recv

InletSpec == InletInit /\ [][InletNext]_vars

\* The server manager selecting among three request handles, some of whose
\* workers drop them, for one request more than MaxFrames.
FallbackInit ==
    InitWith("server", Conf(1, 1, 1),
             Env(3, { << >> }, MaxFrames + 1, { << BT >> }, 0, MaxDrops, 0))

FallbackSpec == FallbackInit /\ [][ServerNext]_vars

\* The server manager with at most two handles of either kind, whose workers
\* may drop them, and frames arriving on the req, in and in_stream sockets
\* before a handle is registered, while handles are registered and after
\* they are gone.
EmptyInit ==
    InitWith("server", Conf(1, 1, 1), Env(2, { << >> }, MaxFrames, ServerPayloads, 0, 2, 0))

EmptyNext ==
    \/ server_req_handle
    \/ server_stream_handle
    \/ ServerControl
    \/ ServerReqHandlesRecvClosed
    \/ ServerStreamHandlesRecvClosed
    \/ ServerReqSockRecv
    \/ ServerInSockRecv
    \/ ServerInStreamSockRecv
    \/ ServerSendResume
    \/ Handle_recv
    \/ Handle_drop

EmptySpec == EmptyInit /\ [][EmptyNext]_vars

\* Either manager with two handles and two messages while socket operations
\* fail: every send may complete with an error, every recv may yield an
\* error, and frames arrive that are packets and that are not.
FaultInit ==
    \E f \in {"client", "server"} :
        InitWith(f, Conf(1, 1, 1),
                 Faulty(Env(2, { << >> }, 2, { << BT, 1, SEP >>, << 1 >> }, 2, 0, 0)))

FaultNext ==
    \/ TrafficNext
    \/ ClientReqSockRecv
    \/ ClientSendResume
    \/ ClientSockRecvErr
    \/ ServerInSockRecv
    \/ ServerSendResume
    \/ ServerSockRecvErr

FaultSpec == FaultInit /\ [][FaultNext]_vars

\* Workers that send and then drop their handles: the client manager with a
\* request handle and a stream handle of depth 1, messages on every
\* sub-channel, and a request frame arriving for the request handle.
LossInit ==
    InitWith("client", Conf(1, 1, 1),
             Env(2, { << >> }, 1, { << BT, 1, 3, SEP >> }, MaxSends, MaxDrops, 0))

LossNext ==
    \/ client_req_handle
    \/ client_stream_handle
    \/ ClientControl
    \/ ClientReqHandle_send
    \/ ClientStreamHandle_send_to_any
    \/ ClientStreamHandle_send_to_addr
    \/ ReqHandlesRecvClosed
    \/ StreamHandlesRecvAnyClosed
    \/ StreamHandlesRecvAddrClosed
    \/ ReqHandlesRecv
    \/ ReqSendDone
    \/ StreamHandlesRecvAny
    \/ StreamOutSendDone
    \/ StreamHandlesRecvAddr
    \/ StreamOutStreamSendDone
    \/ ClientReqSockRecv
    \/ Handle_recv
    \/ Handle_drop

LossSpec == LossInit /\ [][LossNext]_vars

\* Stop in the middle of the traffic: either manager with two handles, the
\* workers sending, reading and dropping handles, a frame arriving, and the
\* owner dropping the manager at any moment.
HaltInit ==
    \E f \in {"client", "server"} :
        InitWith(f, Conf(1, 1, 1),
                 Env(2, { << >> }, 1, { InstanceId \o << SP, BT, 1, SEP >> }, 2, MaxDrops, 0))

HaltNext ==
    \/ FacadeNext
    \/ ReqHandlesRecvClosed
    \/ StreamHandlesRecvAnyClosed
    \/ StreamHandlesRecvAddrClosed
    \/ ServerReqHandlesRecvClosed
    \/ ServerStreamHandlesRecvClosed
    \/ Handle_drop

HaltSpec == HaltInit /\ [][HaltNext]_vars

\* Both registries of either manager under disconnects: two handles of
\* either kind, workers that read as they like and may drop their handles,
\* and frames arriving on the sockets of both kinds.
FlagInit ==
    \E f \in {"client", "server"} :
        InitWith(f, Conf(1, 1, 1),
                 Env(2, { << >> }, MaxFrames,
                     { << BT, 1, SEP >>, InstanceId \o << SP, BT, 1, SEP >> },
                     0, MaxDrops, 0))

FlagNext ==
    \/ DisconnectNext
    \/ client_stream_handle
    \/ server_stream_handle
    \/ StreamHandlesRecvAnyClosed
    \/ StreamHandlesRecvAddrClosed
    \/ ServerStreamHandlesRecvClosed
    \/ ClientInSockRecv
    \/ ServerInSockRecv

FlagSpec == FlagInit /\ [][FlagNext]_vars

\* References: either manager with two request handles whose channels hold
\* one frame, frames with and without ids arriving, workers that keep the
\* frames they receive for as long as they like and may drop their handles,
\* and the owner dropping the manager at any moment.  Every reference to a
\* SharedMessage is counted.
RefInit ==
    \E f \in {"client", "server"} :
        InitWith(f, Conf(1, 1, 1),
                 Counted(Env(2, { << >> }, MaxFrames, { << BT, 1, 3, SEP >>, << BT >> },
                             0, MaxDrops, 0)))

RefNext ==
    \/ client_req_handle
    \/ server_req_handle
    \/ ClientControl
    \/ ServerControl
    \/ ReqHandlesRecvClosed
    \/ ServerReqHandlesRecvClosed
    \/ ClientReqSockRecv
    \/ ServerReqSockRecv
    \/ ClientSendResume
    \/ ServerSendResume
    \/ Handle_recv
    \/ Handle_release
    \/ Handle_drop
    \/ drop_manager
    \/ drop_joined

RefSpec == RefInit /\ [][RefNext]_vars

---------------------------------------------------------------------------
(* Properties of the client dispatch *)

Count(seq, x) == Cardinality({i \in 1..Len(seq) : seq[i] = x})

\* p is a byte-prefix of id
IsPrefixOf(p, id) == \E k \in 0..Len(id) : SubSeq(id, 1, k) = p
SomeIdHasPrefix(ids, p) == \E i \in 1..Len(ids) : IsPrefixOf(p, ids[i])

\* references to the frame of the current dispatch enqueued on handle h
Enqueued(h) == Count(cur.got, h)
\* copies of that frame still queued for the worker of h
Queued(h) == Cardinality({i \in 1..Len(hs[h].inq) : hs[h].inq[i].seq = cur.frame.seq})

\* the id list of the request frame being dispatched
ReqIds == parse_ids(cur.frame.buf).ids

(* C1 as stated: once a request frame with id list I has been dispatched,  *)
(* every entry that was valid when the dispatch began has exactly one       *)
(* reference to the frame enqueued if some id of I has its prefix as a      *)
(* byte-prefix, and none otherwise.                                         *)
C1_PrefixFanOutAsStated ==
    (cur.kind = "req" /\ pc # "send") =>
        \A e \in cur.valid0 :
            Enqueued(e.h) = IF SomeIdHasPrefix(ReqIds, e.filter) THEN 1 ELSE 0

(* C1: for a request frame with id list I and an entry valid when its       *)
(* dispatch began: at most one reference is enqueued on the entry; one is   *)
(* enqueued only if some id of I has the entry's prefix as a byte-prefix;   *)
(* and once the dispatch is over one has been enqueued if some id matches   *)
(* and the entry's worker still holds its handle.  No other handle gets the *)
(* frame.                                                                   *)
C1_PrefixFanOut ==
    cur.kind = "req" =>
        /\ \A e \in cur.valid0 :
              /\ Enqueued(e.h) <= 1
              /\ Enqueued(e.h) = 1 => SomeIdHasPrefix(ReqIds, e.filter)
              /\ (pc # "send" /\ SomeIdHasPrefix(ReqIds, e.filter)
                     /\ hs[e.h].worker = "open") => Enqueued(e.h) = 1
        /\ \A h \in Handles :
              /\ Queued(h) <= Enqueued(h)
              /\ Enqueued(h) > 0 => \E e \in cur.valid0 : e.h = h

\* a frame has fanned out: an entry with a non-empty prefix got it, another
\* entry, whose prefix matches no id and whose worker is there, did not
C1_Witness ==
    /\ cur.kind = "req"
    /\ pc = "select"
    /\ \E e1, e2 \in cur.valid0 :
          /\ Enqueued(e1.h) = 1
          /\ e1.filter # << >>
          /\ Enqueued(e2.h) = 0
          /\ hs[e2.h].worker = "open"
          /\ ~SomeIdHasPrefix(ReqIds, e2.filter)

\* the bytes before the first space of the frame, and the ids after it
AddrOf(buf) == SubSeq(buf, 1, FirstSpace(buf) - 1)
StreamIds == parse_ids(SubSeq(cur.frame.buf, FirstSpace(cur.frame.buf) + 1,
                              Len(cur.frame.buf))).ids
ForUs(buf) == FirstSpace(buf) > 0 /\ AddrOf(buf) = InstanceId

(* C2 as stated: a frame of the in socket is dispatched only if the bytes   *)
(* before its first space are instance_id, any other frame is enqueued on   *)
(* no handle and the loop goes on; a dispatched frame is enqueued on every  *)
(* entry valid at that moment whose prefix is a byte-prefix of one of the   *)
(* ids after the space, and on no other.                                    *)
C2_StreamDispatchAsStated ==
    /\ cur.kind = "stream" => ForUs(cur.frame.buf)
    /\ (cur.kind = "dropped" /\ ~ForUs(cur.frame.buf)) =>
          pc = "select" /\ \A h \in Handles : Queued(h) = 0
    /\ (cur.kind = "stream" /\ pc # "send") =>
          \A e \in cur.valid0 :
             Enqueued(e.h) = IF SomeIdHasPrefix(StreamIds, e.filter) THEN 1 ELSE 0

(* C2: a frame of the in socket is dispatched only if the bytes before its  *)
(* first space are instance_id; a frame with no space or another address    *)
(* is queued for no handle and the loop is back at its selector; no handle  *)
(* ever has a frame queued that is not addressed to this instance; a        *)
(* dispatched frame reaches an entry valid at that moment only if the       *)
(* entry's prefix is a byte-prefix of an id after the space, and does reach *)
(* it when the entry's worker still holds its handle.                       *)
C2_StreamDispatch ==
    /\ cur.kind = "stream" => ForUs(cur.frame.buf)
    /\ (cur.kind = "dropped" /\ ~ForUs(cur.frame.buf)) =>
          pc = "select" /\ cur.got = << >> /\ \A h \in Handles : Queued(h) = 0
    /\ \A h \in Handles : \A i \in 1..Len(hs[h].inq) : ForUs(hs[h].inq[i].buf)
    /\ cur.kind = "stream" =>
          /\ \A e \in cur.valid0 :
                /\ Enqueued(e.h) <= 1
                /\ Enqueued(e.h) = 1 => SomeIdHasPrefix(StreamIds, e.filter)
                /\ (pc # "send" /\ SomeIdHasPrefix(StreamIds, e.filter)
                       /\ hs[e.h].worker = "open") => Enqueued(e.h) = 1
          /\ \A h \in Handles :
                /\ Queued(h) <= Enqueued(h)
                /\ Enqueued(h) > 0 => \E e \in cur.valid0 : e.h = h

\* a frame for another instance was dropped after a frame for this instance
\* had been enqueued on a stream handle
C2_Witness ==
    /\ cur.kind = "dropped"
    /\ FirstSpace(cur.frame.buf) > 0
    /\ AddrOf(cur.frame.buf) # InstanceId
    /\ \E h \in Handles : Len(hs[h].inq) = 1 /\ hs[h].kind = "stream"

---------------------------------------------------------------------------
(* Properties of the server request dispatch *)

\* the dispatches since the request registry last changed
Run == SubSeq(sr_log, run_start + 1, Len(sr_log))
CountIn(seq, a, b, x) == Cardinality({i \in a..b : seq[i] = x})

(* C3 as stated: while the server request registry holds N valid entries    *)
(* and no entry is added, invalidated or removed, any k consecutive         *)
(* dispatches give each entry floor(k/N) or floor(k/N) + 1 frames, the      *)
(* latter only when N does not divide k.                                    *)
C3_RoundRobinFair ==
    LET N == Len(req_handles.list) IN
    (N > 0 /\ AllValid(req_handles)) =>
        \A a \in 1..Len(Run) : \A b \in a..Len(Run) :
            \A h \in HandlesOf(req_handles) :
                LET k == b - a + 1
                    got == CountIn(Run, a, b, h)
                IN  \/ got = k \div N
                    \/ got = (k \div N) + 1 /\ k % N # 0

\* the round robin at work: three valid entries, three dispatches in a row
C3_Witness ==
    /\ Len(req_handles.list) = 3
    /\ AllValid(req_handles)
    /\ Len(Run) >= 3

---------------------------------------------------------------------------
(* Properties of the server stream dispatch *)

\* the entry an id is assigned to when the specs are applied: the one at
\* index hash(x) mod N
Assigned(x) == ss.entries[(hash(x) % ss.n) + 1]
GotSet == {cur.got[i] : i \in 1..Len(cur.got)}

(* C5 as stated: once the server stream specs are applied the number of     *)
(* stream entries stays what it was, the dispatch of a frame completes, and *)
(* a frame that arrives afterwards is enqueued only on the entries at index *)
(* hash(x) mod N for its ids x, and on each of them whose worker still      *)
(* holds its handle.                                                        *)
C5_HashStable ==
    specs_applied =>
        /\ RegLen(stream_handles) = ss.n
        /\ pc # "panicked"
        /\ (cur.kind = "sstream" /\ cur.frame.seq > ss.at /\ ss.n > 0) =>
              /\ GotSet \subseteq {Assigned(cur.ids[i]) : i \in 1..Len(cur.ids)}
              /\ pc = "select" =>
                    \A i \in 1..Len(cur.ids) :
                       hs[Assigned(cur.ids[i])].worker = "open"
                          => Assigned(cur.ids[i]) \in GotSet

\* after the specs were applied an entry was removed and the next frame made
\* the manager index a vacant slot
C5_Witness ==
    /\ specs_applied
    /\ pc = "panicked"
    /\ RegLen(stream_handles) < ss.n

\* the manager takes a control request
TakesControl == pc = "select" /\ control # << >> /\ control' = Tail(control)

(* C6: when the server manager processes an AddServerStreamHandle request   *)
(* after the stream specs were applied, the stream registry gains no entry  *)
(* (it changes only by the cleanup that ends the iteration) and the         *)
(* request's handle is not registered; when it processes an                 *)
(* AddServerReqHandle request after the specs were applied and the handle   *)
(* bound has room, the request's handle is registered.                      *)
C6_NoStreamAddAfterSpecs ==
    [][(flavor = "server" /\ TakesControl /\ specs_applied) =>
          LET req == Head(control) IN
          /\ req.type = "AddServerStreamHandle" =>
                /\ stream_handles' = AfterIteration(stream_handles)
                /\ RegLen(stream_handles') <= RegLen(stream_handles)
                /\ req.h \notin HandlesOf(stream_handles')
                /\ req.h \notin HandlesOf(req_handles')
          /\ (req.type = "AddServerReqHandle" /\ HandleBoundFree) =>
                /\ req.h \in HandlesOf(req_handles')
                /\ stream_handles' = AfterIteration(stream_handles)]_vars

\* after the specs: a stream handle was refused, a request handle was added
C6_Witness ==
    /\ specs_applied
    /\ \E h \in Handles : add_result[h] = "specs" /\ h \notin HandlesOf(stream_handles)
    /\ \E h \in Handles : add_result[h] = "added_after_specs" /\ h \in HandlesOf(req_handles)

---------------------------------------------------------------------------
(* Properties of both managers *)

Total == RegLen(req_handles) + RegLen(stream_handles)
AddTypes == {"AddClientReqHandle", "AddClientStreamHandle",
             "AddServerReqHandle", "AddServerStreamHandle"}

(* C7: in every reachable state of either manager the request registry and  *)
(* the stream registry together hold at most HANDLES_MAX entries; and when  *)
(* a manager processes an Add*Handle request while they hold HANDLES_MAX,   *)
(* the request's handle is added to neither registry and neither registry   *)
(* gains an entry (they change only by the cleanup that ends the            *)
(* iteration).                                                              *)
C7_HandleBound ==
    /\ [](Total <= HANDLES_MAX)
    /\ [][(TakesControl /\ Head(control).type \in AddTypes /\ Total = HANDLES_MAX) =>
             /\ req_handles' = AfterIteration(req_handles)
             /\ stream_handles' = AfterIteration(stream_handles)
             /\ Head(control).h \notin HandlesOf(req_handles') \cup HandlesOf(stream_handles')
          ]_vars

\* a server manager at the bound has refused a handle
C7_Witness ==
    /\ flavor = "server"
    /\ Total = HANDLES_MAX
    /\ RegLen(req_handles) > 0
    /\ RegLen(stream_handles) > 0
    /\ \E h \in Handles : add_result[h] = "bound" /\ hs[h].pipe = "dropped"

\* the in-flight slot of the socket that the sub-channel ch of handle h feeds
SlotOf(h, ch) ==
    IF ch = "out_addr" THEN stream_out_stream_send
    ELSE IF hs[h].kind \in {"req", "sreq"} THEN req_send
    ELSE stream_out_send

(* C8: an in-flight slot never goes from one outstanding send to another:   *)
(* it is filled only when empty and emptied only when filled; and whenever  *)
(* the manager takes a message from a worker's sub-channel, the slot of the *)
(* socket that sub-channel feeds was empty.                                 *)
C8_OneInFlight ==
    [][/\ req_send' # req_send => (IsNone(req_send) \/ IsNone(req_send'))
       /\ stream_out_send' # stream_out_send =>
             (IsNone(stream_out_send) \/ IsNone(stream_out_send'))
       /\ stream_out_stream_send' # stream_out_stream_send =>
             (IsNone(stream_out_stream_send) \/ IsNone(stream_out_stream_send'))
       /\ \A h \in Handles : \A ch \in {"out", "out_addr"} :
             (hs'[h].pipe = "registry" /\ Len(hs'[h][ch]) < Len(hs[h][ch]))
                => IsNone(SlotOf(h, ch))
      ]_vars

\* a send is outstanding on the server's req socket while another reply
\* waits in a worker's channel
C8_Witness ==
    /\ flavor = "server"
    /\ ~IsNone(req_send)
    /\ \E h \in ValidHandlesOf(req_handles) : hs[h].out # << >>

(* C9: in the flow-control run (retained 1, hwm 1, handle_bound 1, peer     *)
(* receive high-water mark 1), while the peer has read nothing: four        *)
(* send_to_addr calls eventually succeed, and whenever four have succeeded  *)
(* a further call returns Full; and once the peer has read a frame a fifth  *)
(* call eventually succeeds.  Handle 1 is the stream handle of the run.     *)
C9_FlowControl ==
    /\ <>(nsends = 4 /\ nread = 0)
    /\ []((nsends = 4 /\ nread = 0) => TrySendState(1, "out_addr") = "full")
    /\ (nread >= 1) ~> (nsends >= 5)

\* four messages fill the handle channel, the in-flight slot and the two
\* socket queues; the fifth call returns Full
C9_Witness ==
    /\ nsends = 4
    /\ nread = 0
    /\ Len(hs[1].out_addr) = 1
    /\ ~IsNone(stream_out_stream_send)
    /\ Len(wire) = 2
    /\ TrySendState(1, "out_addr") = "full"

(* C10: for every handle, the stamps of the messages the manager hands to a *)
(* socket from one sub-channel only grow (they are handed over in the order *)
(* the worker enqueued them), and the stamps of the frames the worker       *)
(* receives only grow (it receives them in the order the manager received   *)
(* them from the socket).                                                   *)
C10_ChannelFifo ==
    [][\A h \in Handles :
          /\ lasthanded'[h].any >= lasthanded[h].any
          /\ lasthanded'[h].addr >= lasthanded[h].addr
          /\ lastgot'[h] >= lastgot[h]
      ]_vars

\* two messages of one worker's addressed sub-channel reached the socket in
\* order, and the worker received two frames
C10_Witness ==
    \E h \in Handles :
       /\ wire = << 1, 2 >>
       /\ lasthanded[h].addr = 2
       /\ \A g \in Handles \ {h} : lasthanded[g].addr = 0
       /\ lastgot[h] = 2

---------------------------------------------------------------------------
(* Properties of backpressure *)

\* the handle whose channel the suspended dispatch waits on
WaitsOn == Node(RegOf(cur.kind), RegOf(cur.kind).list[cur.pos]).h

(* C11: with workers that have stopped reading, once a request handle is    *)
(* registered the dispatch of the frames that follow eventually suspends    *)
(* on a full channel; once it is suspended, and the workers have a send     *)
(* left for every handle, try_send on the handle it waits on eventually     *)
(* returns Full; and while it is suspended no frame is taken from the       *)
(* socket, the frame being dispatched is kept, and no inbound channel       *)
(* loses or gains a frame.                                                  *)
C11_Backpressure ==
    /\ (nframes = 0 /\ ValidHandlesOf(req_handles) # {}) ~> (pc = "send")
    /\ (pc = "send" /\ nsends + env.handles <= env.sends)
           ~> (pc = "send" /\ TrySendState(WaitsOn, "out") = "full")
    /\ [](\A h \in Handles : Len(hs[h].inq) <= conf.handle_bound)
    /\ [][pc = "send" =>
            /\ pc' = "send"
            /\ nframes' = nframes
            /\ cur' = cur
            /\ \A h \in Handles : hs'[h].inq = hs[h].inq]_vars

\* the dispatch is suspended on a handle that returns Full to its worker,
\* while another handle holds the frame it was given before
C11_Witness ==
    /\ pc = "send"
    /\ TrySendState(WaitsOn, "out") = "full"
    /\ \E h \in ValidHandlesOf(req_handles) \ {WaitsOn} : Len(hs[h].inq) = 1

---------------------------------------------------------------------------
(* Properties of the arena *)

(* C12 as stated: whenever the loop is at its selector, so that a frame may *)
(* arrive, fewer arena slots are in use than the arena has, and no          *)
(* allocation has failed, whatever hwm, handle_bound and retained_max are.  *)
C12_ArenaSafety ==
    /\ pc = "select" => Live < arena_size
    /\ cur.kind # "nomem"

\* the allocation for an arriving frame failed and the loop panicked
C12_Witness ==
    /\ cur.kind = "nomem"
    /\ pc = "panicked"
    /\ conf.handle_bound > conf.hwm

---------------------------------------------------------------------------
(* Properties of the shutdown *)

(* C13: the drop of a manager puts Stop on the control channel, and it has  *)
(* returned only when run() has returned; from then on no handle's inbound  *)
(* channel gains a frame, nothing goes out on a socket and no send is in    *)
(* flight.                                                                  *)
C13_CleanShutdown ==
    /\ [][owner = "idle" /\ owner' # "idle" =>
            /\ owner' = "joining"
            /\ control' # << >>
            /\ control'[Len(control')].type = "Stop"]_vars
    /\ [](owner = "dropped" => pc = "stopped")
    /\ [][owner = "dropped" =>
            /\ owner' = "dropped"
            /\ \A h \in Handles : Len(hs'[h].inq) <= Len(hs[h].inq)
            /\ wire' = wire
            /\ inflight' = inflight /\ inflight = << None, None, None >>]_vars

\* the drop has returned while frames were still arriving and a worker that
\* holds its handle reads what was queued for it
C13_Witness ==
    /\ owner = "dropped"
    /\ nframes < env.frames
    /\ \E h \in Handles : hs[h].worker = "open" /\ lastgot[h] > 0 /\ hs[h].inq = << >>


(* C14 as stated: once the owner has begun the drop and Stop is on the      *)
(* control channel, the loop eventually receives it and run() returns, and  *)
(* the drop eventually returns, whatever the state of the handle channels.  *)
C14_StopTerminates ==
    /\ (owner = "joining") ~> (pc = "stopped")
    /\ (owner = "joining") ~> (owner = "dropped")

\* the drop waits for the thread while the loop is suspended in a dispatch
\* to a full channel, with Stop unread on the control channel
C14_Witness ==
    /\ owner = "joining"
    /\ pc = "send"
    /\ control # << >> /\ Head(control).type = "Stop"
    /\ TrySendState(WaitsOn, "inq") = "full"

---------------------------------------------------------------------------
(* Properties of the loop as a whole *)

(* C15 as stated: the manager thread leaves the loop only by taking Stop    *)
(* from the control channel; nothing else makes it exit or panic.           *)
C15_LoopInfallible ==
    [][(pc \in {"select", "send"} /\ pc' \notin {"select", "send"}) =>
          (pc' = "stopped" /\ pc = "select" /\ control # << >>
           /\ Head(control).type = "Stop")]_vars

\* with no specs applied, an entry was removed by a cleanup pass and the
\* dispatch of the next stream frame indexed the vacant slot
C15_Witness ==
    /\ pc = "panicked"
    /\ cur.kind = "sstream"
    /\ ~specs_applied
    /\ RegLen(stream_handles) > 0

---------------------------------------------------------------------------
(* Properties of the registries under disconnects *)

(* C16: a step in which the registry recv finds the channel of a valid      *)
(* entry closed leaves the entry in the registry, invalid, with the cleanup *)
(* flag set, and resolves nothing: the in-flight slot and the loop stay as  *)
(* they are.  The slot is filled only with the oldest message of a valid    *)
(* entry's channel, which is taken from that channel.                       *)
C16_RecvNeverClosed ==
    [][/\ \A h \in Handles :
             (/\ pc = "select"
              /\ RecvClosed(req_handles, h, "out")
              /\ h \notin ValidHandlesOf(req_handles')
              /\ cur' = cur)
             => /\ h \in HandlesOf(req_handles')
                /\ req_handles'.need_cleanup
                /\ req_send' = req_send
                /\ pc' = pc /\ hs' = hs
       /\ (req_send' # req_send /\ ~IsNone(req_send')) =>
             \E h \in ValidHandlesOf(req_handles) :
                /\ hs[h].out # << >>
                /\ req_send'.v = Head(hs[h].out)
                /\ hs'[h].out = Tail(hs[h].out)]_vars

\* the recv has marked one entry invalid for its closed channel and waits
\* on another entry, which has a message queued
C16_Witness ==
    /\ pc = "select" /\ cur.kind = "none" /\ IsNone(req_send)
    /\ req_handles.need_cleanup
    /\ \E h \in HandlesOf(req_handles) \ ValidHandlesOf(req_handles) :
          hs[h].worker = "dropped"
    /\ \E g \in ValidHandlesOf(req_handles) : hs[g].out # << >>


\* references to the frame enqueued on h by the dispatch c
GotBy(c, h) == Count(c.got, h)

(* C17: while a request dispatch is suspended, every matching entry it has  *)
(* passed either got the frame once and is valid, or got nothing and is     *)
(* marked invalid with the cleanup flag set.  In the step that ends a       *)
(* dispatch, every matching entry valid when it began has the frame once if *)
(* its worker holds its handle, whatever came before it in the list; an     *)
(* entry whose worker is gone and that had not got the frame gets nothing   *)
(* and is out of the registry when the iteration ends.                      *)
C17_SendPeerGone ==
    /\ []((pc = "send" /\ cur.kind = "req") =>
            \A i \in 1..(cur.pos - 1) :
               LET p == Node(req_handles, req_handles.list[i]) IN
               ([h |-> p.h, filter |-> p.filter] \in cur.valid0
                   /\ SomeIdHasPrefix(ReqIds, p.filter)) =>
                  \/ p.valid /\ Enqueued(p.h) = 1
                  \/ ~p.valid /\ req_handles.need_cleanup /\ Enqueued(p.h) = 0)
    /\ [][(cur' # cur /\ cur'.kind = "req" /\ pc' = "select") =>
            \A e \in cur'.valid0 :
               SomeIdHasPrefix(cur'.ids, e.filter) =>
                  /\ GotBy(cur', e.h) <= 1
                  /\ hs[e.h].worker = "open" => GotBy(cur', e.h) = 1
                  /\ (/\ hs[e.h].worker = "dropped"
                      /\ (cur'.frame.seq = cur.frame.seq => GotBy(cur, e.h) = 0))
                     => /\ GotBy(cur', e.h) = 0
                        /\ e.h \notin HandlesOf(req_handles')]_vars

\* a dispatch is over: the first of two matching entries had lost its worker,
\* got nothing and is out of the registry, the second got the frame
C17_Witness ==
    /\ cur.kind = "req" /\ pc = "select"
    /\ \E e1, e2 \in cur.valid0 :
          /\ e1.h < e2.h
          /\ SomeIdHasPrefix(ReqIds, e1.filter)
          /\ Enqueued(e1.h) = 0
          /\ e1.h \notin HandlesOf(req_handles)
          /\ Enqueued(e2.h) = 1


\* the step ends an iteration of the loop: a selector branch has settled and
\* its handler has run to the end
IterationEnds ==
    /\ pc' = "select"
    /\ \/ pc = "send"
       \/ Len(control') < Len(control)
       \/ inflight' # inflight
       \/ cur' # cur

\* C18 for one registry, before and after a step
Monotone(reg, regp) ==
    /\ \A h \in HandlesOf(regp) \ HandlesOf(reg) : h \in ValidHandlesOf(regp)
    /\ \A h \in HandlesOf(reg) \ ValidHandlesOf(reg) : h \notin ValidHandlesOf(regp)
    /\ \A h \in Handles : (hs[h].pipe = "dropped") => h \notin HandlesOf(regp)
    /\ IterationEnds =>
          /\ HandlesOf(regp) = ValidHandlesOf(regp)
          /\ HandlesOf(regp) \cap HandlesOf(reg) \subseteq ValidHandlesOf(reg)
          /\ ~regp.need_cleanup

(* C18: an entry is valid when it is added; an invalid entry never becomes  *)
(* valid again, and a removed one never comes back; whenever an entry is    *)
(* invalid the cleanup flag is set, and the step that ends a loop iteration *)
(* leaves no invalid entry and no entry that was invalid before it.         *)
C18_ValidityMonotone ==
    /\ [](\A reg \in {req_handles, stream_handles} :
             HandlesOf(reg) # ValidHandlesOf(reg) => reg.need_cleanup)
    /\ [][Monotone(req_handles, req_handles')
           /\ Monotone(stream_handles, stream_handles')]_vars

\* no frame was dispatched; an entry marked invalid by the registry recv has
\* been removed by a cleanup pass, its pipe end dropped, another entry stays
C18_Witness ==
    /\ cur.kind = "none"
    /\ ValidHandlesOf(req_handles) # {}
    /\ \E h \in Handles :
          /\ hs[h].kind \in {"req", "sreq"}
          /\ hs[h].pipe = "dropped"
          /\ h \notin HandlesOf(req_handles)


\* registered handles whose pipe end the manager drops in this step
PipesDropped == { h \in Handles : hs[h].pipe = "registry" /\ hs'[h].pipe = "dropped" }
\* handles that leave the registry in this step
Removed(reg, regp) == HandlesOf(reg) \ HandlesOf(regp)

\* what C19 says of cleanup() applied to the registry reg
CleanupExact(reg) ==
    LET c == cleanup(reg)
        keys == 0..(Len(reg.slots) - 1)
        stays(k) == Node(reg, k).occ /\ Node(reg, k).valid
        invalid == { k \in keys : Node(reg, k).occ /\ ~Node(reg, k).valid }
    IN  /\ c.list = SelectSeq(reg.list, stays)
        /\ Len(c.slots) = Len(reg.slots)
        /\ \A k \in keys : IF stays(k) THEN Node(c, k) = Node(reg, k)
                             ELSE ~Node(c, k).occ
        /\ RegLen(c) = RegLen(reg) - Cardinality(invalid)
        /\ ~c.need_cleanup

(* C19: in every reachable state of either registry, cleanup() leaves the   *)
(* list with exactly its valid entries in their order, vacates the slab     *)
(* slots of the invalid ones and no other, lowers len() by their number and *)
(* clears the flag; and the step that ends a loop iteration drops the pipe  *)
(* end of each entry it removes, once, and of nothing else.                 *)
C19_CleanupExact ==
    /\ [](CleanupExact(req_handles) /\ CleanupExact(stream_handles))
    /\ [][IterationEnds =>
            /\ PipesDropped = Removed(req_handles, req_handles')
                                 \cup Removed(stream_handles, stream_handles')
            /\ \A h \in Handles : hs[h].pipe = "dropped" => hs'[h].pipe = "dropped"]_vars

\* a cleanup pass has removed the second of three entries: the first and
\* the third are left, in that order, and slab slot 1 is vacant
C19_Witness ==
    \E reg \in {req_handles, stream_handles} :
       /\ reg.list = << 0, 2 >>
       /\ ~Node(reg, 1).occ
       /\ ~reg.need_cleanup
       /\ \E h \in Handles : hs[h].pipe = "dropped"

---------------------------------------------------------------------------
(* Properties of the handle facades *)

(* C20: a recv on a handle whose inbound channel holds something returns    *)
(* Ok with the oldest frame and takes it from the channel; on an empty      *)
(* channel it changes nothing and returns would-block as long as the        *)
(* manager's end is there.  A send whose channel has room returns Ok and    *)
(* appends the message; on a full channel it returns Full with the message  *)
(* it was given and changes no channel.                                     *)
C20_FacadeResults ==
    [][ret' # ret =>
         LET h == ret'.h
             q == hs[h][ret'.ch]
         IN  IF ret'.op = "recv"
             THEN IF q # << >>
                  THEN /\ ret'.res = "ok" /\ ret'.item = q[1]
                       /\ hs'[h].inq = SubSeq(q, 2, Len(q))
                  ELSE /\ hs' = hs
                       /\ hs[h].pipe # "dropped" => ret'.res = "would_block"
             ELSE IF hs[h].pipe = "dropped"
                  THEN hs' = hs /\ ret'.res = "broken_pipe"
                  ELSE IF Len(q) < conf.handle_bound
                  THEN /\ ret'.res = "ok"
                       /\ hs' = [hs EXCEPT ![h][ret'.ch] = Append(q, ret'.arg)]
                  ELSE /\ ret'.res = "full" /\ ret'.item = ret'.arg
                       /\ hs' = hs]_vars

\* a send has come back Full with its message while the channel holds
\* HandleBound older ones and the manager's end is there
C20_Witness ==
    /\ ret.op = "send" /\ ret.res = "full"
    /\ ret.item.n > HandleBound
    /\ Len(hs[ret.h][ret.ch]) = HandleBound
    /\ hs[ret.h].pipe = "registry"


(* C21: a send_to_addr with an address of more than ADDR_MAX bytes returns  *)
(* invalid-input and changes no channel, whether the channel has room, is   *)
(* full or has lost the manager; with an address of at most ADDR_MAX bytes  *)
(* it never returns invalid-input.                                          *)
C21_AddrTooLong ==
    [][(ret' # ret /\ ret'.op = "send" /\ ret'.ch = "out_addr") =>
          IF Len(ret'.arg.addr) > ADDR_MAX
          THEN ret'.res = "invalid_input" /\ hs' = hs /\ nsends' = nsends
          ELSE ret'.res \in {"ok", "full", "broken_pipe"}]_vars

\* a send with an address one byte too long was rejected while the channel
\* was full
C21_Witness ==
    /\ ret.res = "invalid_input"
    /\ Len(ret.arg.addr) = ADDR_MAX + 1
    /\ hs[ret.h].pipe = "registry"
    /\ Len(hs[ret.h].out_addr) = conf.handle_bound

---------------------------------------------------------------------------
(* Properties of the server request path *)

(* C22: the request being dispatched, wherever it is queued, is queued with *)
(* the header and the message it arrived with, and a recv returns the       *)
(* queued pair as it is; a reply a worker sends is queued with the header   *)
(* the worker gave, and the send the manager issues on the req socket       *)
(* carries the header and the message of the reply it took.                 *)
C22_EnvelopeRoundTrip ==
    /\ [](\A h \in Handles : \A i \in 1..Len(hs[h].inq) :
             hs[h].inq[i].seq = cur.frame.seq => hs[h].inq[i] = cur.frame)
    /\ [][/\ (ret' # ret /\ ret'.op = "recv" /\ ret'.res = "ok") =>
               ret'.item = hs[ret'.h].inq[1]
          /\ (ret' # ret /\ ret'.op = "send" /\ ret'.res = "ok") =>
               LET q == hs'[ret'.h].out IN
               q[Len(q)].header = ret'.arg.header /\ q[Len(q)].n = ret'.arg.n
          /\ (req_send' # req_send /\ ~IsNone(req_send')) =>
               \E h \in Handles :
                  /\ hs[h].out # << >>
                  /\ hs'[h].out = Tail(hs[h].out)
                  /\ req_send'.v.header = hs[h].out[1].header
                  /\ req_send'.v.n = hs[h].out[1].n]_vars

\* a worker has received the second request, which came with the longer
\* header, and the manager is sending a reply that carries that header
C22_Witness ==
    /\ ret.op = "recv" /\ ret.res = "ok"
    /\ ret.item.seq > 1
    /\ ret.item.header = PeerId \o ReqHeader
    /\ ~IsNone(req_send) /\ req_send.v.header = PeerId \o ReqHeader

---------------------------------------------------------------------------
(* Properties of the control inlet *)

\* the manager takes a request off the control inlet
Takes == control # << >> /\ control' = Tail(control)

(* C23: the manager answers every Set* request it takes with one reply, the *)
(* outcome of applying that request's specs, and answers no other request;  *)
(* a thread leaves control_req() only by taking a reply, and the reply it   *)
(* takes is the outcome of its own request; at most one reply is queued.    *)
C23_ControlProtocol ==
    /\ [](Len(control_reply) <= 1)
    /\ [][Takes =>
            IF Head(control).type \in SetTypes
            THEN control_reply' = Append(control_reply, Head(control).ok)
            ELSE control_reply' = control_reply]_vars
    /\ [][\A t \in Threads :
            (callers[t].at # "outside" /\ callers'[t].at = "outside"
               /\ callers[t].req.type \in SetTypes) =>
                  (/\ callers[t].at = "recv"
                   /\ control_reply # << >>
                   /\ control_reply' = Tail(control_reply)
                   /\ callers'[t].result = Returned("reply", callers[t].req.ok))]_vars

\* both threads have applied specs, one successfully and one not, and each
\* has its own outcome
C23_Witness ==
    /\ callers[1].at = "outside" /\ callers[1].result = Returned("reply", TRUE)
    /\ callers[2].at = "outside" /\ callers[2].result = Returned("reply", FALSE)
    /\ Len(control) = 1 /\ control[1].type \notin SetTypes

---------------------------------------------------------------------------
(* Properties that relate one handle to another *)

\* frame n is queued for the worker of h, or the worker has had it
Reached(h, n) == lastgot[h] >= n \/ \E i \in 1..Len(hs[h].inq) : hs[h].inq[i].seq = n

(* C24 as stated: a frame the peer of the req socket has yet to deliver is  *)
(* eventually enqueued on every valid handle whose worker keeps reading     *)
(* (every frame matches every handle here), and a message such a worker has *)
(* enqueued is eventually handed to the req socket, whatever the other      *)
(* handle's worker does.                                                    *)
C24_Isolation ==
    /\ \A b \in Handles : \A n \in 1..(MaxFrames + 1) :
          (/\ nframes < n
           /\ b \notin env.idle
           /\ b \in ValidHandlesOf(req_handles)) ~> Reached(b, n)
    /\ \A b \in Handles : \A n \in 1..MaxSends :
          (/\ b \notin env.idle
           /\ b \in ValidHandlesOf(req_handles)
           /\ hs[b].out # << >> /\ hs[b].out[1].n = n) ~> (lasthanded[b].any >= n)

\* the dispatch of the second frame is suspended on the handle whose worker
\* has stopped reading, with a frame left at the socket; the other worker
\* has read what it was given and has a message queued
C24_Witness ==
    /\ pc = "send" /\ cur.frame.seq = 2
    /\ nframes < env.frames
    /\ WaitsOn \in env.idle
    /\ \E b \in ValidHandlesOf(req_handles) \ env.idle :
          /\ lastgot[b] = 2
          /\ hs[b].inq = << >>
          /\ hs[b].out # << >>

---------------------------------------------------------------------------
(* Properties of a handle whose pipe end the manager has given up *)

\* the Add request of h was refused
Refused(h) == add_result[h] \in {"bound", "specs"}

(* C25: once run() has returned no handle has a pipe end left, and a handle *)
(* whose Add request was refused has none either; on such a handle send     *)
(* returns BrokenPipe and enqueues nothing, and recv returns the queued     *)
(* frames in order and BrokenPipe once there is none: never WouldBlock or   *)
(* Full.                                                                    *)
C25_BrokenPipe ==
    /\ [](\A h \in Handles :
            (hs[h].kind # "none" /\ (pc = "stopped" \/ Refused(h))) => hs[h].pipe = "dropped")
    /\ [][(ret' # ret /\ (pc = "stopped" \/ Refused(ret'.h))) =>
            IF ret'.op = "send"
            THEN ret'.res = "broken_pipe" /\ hs' = hs
            ELSE IF hs[ret'.h].inq # << >>
                 THEN /\ ret'.res = "ok" /\ ret'.item = hs[ret'.h].inq[1]
                      /\ hs'[ret'.h].inq = Tail(hs[ret'.h].inq)
                 ELSE ret'.res = "broken_pipe"]_vars

\* the manager has exited; a worker whose handle was registered has drained
\* its channel and got BrokenPipe, and a handle was refused for the bound
C25_Witness ==
    /\ pc = "stopped"
    /\ ret.op = "recv" /\ ret.res = "broken_pipe"
    /\ lastgot[ret.h] = 1
    /\ \E h \in Handles : add_result[h] = "bound"

---------------------------------------------------------------------------
(* Properties of the client in socket *)

(* C26: the in socket's subscription is the instance id followed by one     *)
(* space from before the first control request is taken; what its publish   *)
(* peer receives from it begins with the subscription message for exactly   *)
(* that prefix; and once the in endpoint is installed the peer eventually   *)
(* has received it.                                                         *)
C26_SubscriptionPriming ==
    /\ [](/\ Len(in_sock.subscribe) = Len(conf.instance_id) + 1
          /\ StartsWith(in_sock.subscribe, conf.instance_id)
          /\ in_sock.subscribe[Len(in_sock.subscribe)] = SP)
    /\ [](in_sock.peer # << >> =>
             /\ in_sock.installed
             /\ in_sock.peer[1] = << SUBSCRIBE >> \o conf.instance_id \o << SP >>)
    /\ in_sock.installed ~> (in_sock.peer # << >>)

\* the stream specs were applied at the second attempt, the peer has the
\* subscription, and a frame that passed the filter has been dispatched
C26_Witness ==
    /\ in_sock.installed
    /\ in_sock.peer = << << SUBSCRIBE >> \o conf.instance_id \o << SP >> >>
    /\ owner = "idle"
    /\ nframes > 0
    /\ \E h \in Handles : lastgot[h] > 0


\* thread t is inside a handle-creation call
Creating(t) == callers[t].req.type \in AddTypes

(* C27 as stated: in every state, a handle-creation call that has its       *)
(* request ready can enqueue it and return.                                 *)
C27_AddReturns ==
    \A t \in Threads : (callers[t].at = "send" /\ Creating(t)) => Len(control) = 0

(* C27: a handle-creation call never waits for a reply; the step in which   *)
(* it returns is the step that puts its request in the control queue, with  *)
(* the pipe end still in the request and the registries as they were; and   *)
(* while it has not returned, either it is waiting for the mutex or the     *)
(* queue holds an earlier request or it can return.                         *)
C27_AddReturnsWhenRoom ==
    /\ [](\A t \in Threads : Creating(t) => callers[t].at \in {"lock", "send"})
    /\ [][\A t \in Threads :
            (Creating(t) /\ callers'[t].at = "outside") =>
               /\ control' = Append(control, callers[t].req)
               /\ hs'[callers[t].req.h].pipe = "control"
               /\ add_result'[callers[t].req.h] = "none"
               /\ req_handles' = req_handles /\ stream_handles' = stream_handles
               /\ control_reply' = control_reply /\ pc' = pc]_vars
    /\ [](\A t \in Threads :
            (callers[t].at = "send" /\ Creating(t) /\ Len(control) = 0) => ENABLED control_send(t))

\* a handle-creation call has returned and its request is still in the
\* queue, the loop being suspended in a dispatch; the other thread's call
\* holds the mutex and cannot enqueue
C27_Witness ==
    /\ pc = "send"
    /\ Len(control) = 1 /\ control[1].type \in AddTypes
    /\ hs[control[1].h].pipe = "control"
    /\ callers[1].at = "outside" /\ callers[1].result = Returned("unit", TRUE)
    /\ callers[2].at = "send" /\ Creating(2)

---------------------------------------------------------------------------
(* Properties of the server request selection *)

\* the list positions the scan visits: the head up to the send_index-th
\* entry after it, or to the end of the list
Scanned == 1..(IF req_handles.send_index + 1 < Len(req_handles.list)
               THEN req_handles.send_index + 1 ELSE Len(req_handles.list))
ValidScanned == { i \in Scanned : Node(req_handles, req_handles.list[i]).valid }
\* the key of the last valid entry among them, -1 if there is none
Chosen ==
    IF ValidScanned = {} THEN -1
    ELSE req_handles.list[CHOOSE i \in ValidScanned : \A j \in ValidScanned : j <= i]

\* a request is taken from the req socket and dispatched into a registry
\* that holds entries
Dispatches == flavor = "server" /\ nframes' = nframes + 1 /\ RegLen(req_handles) > 0

(* C28: a request dispatched into a registry with entries goes to the       *)
(* send_index-th entry of the list if that entry is valid, and otherwise to *)
(* the last valid entry the scan from the head met before it; no other      *)
(* handle gets it, and if there is no such entry nobody does.  send_index   *)
(* becomes (send_index + 1) modulo the number of entries in every case.     *)
C28_RoundRobinFallback ==
    [][Dispatches =>
         /\ req_handles'.send_index = (req_handles.send_index + 1) % RegLen(req_handles)
         /\ \A g \in Handles :
               (Chosen = -1 \/ g # Node(req_handles, Chosen).h) =>
                  \A i \in 1..Len(hs'[g].inq) : hs'[g].inq[i].seq # nframes'
         /\ Chosen = -1 => pc' = "select"
         /\ Chosen # -1 =>
               LET h == Node(req_handles, Chosen).h IN
               CASE SendState(hs, h) = "ok" ->
                       /\ hs'[h].inq = Append(hs[h].inq, cur'.frame)
                       /\ cur'.frame.seq = nframes'
                       /\ pc' = "select"
                 [] SendState(hs, h) = "pending" ->
                       pc' = "send" /\ cur'.pos = Chosen /\ hs'[h].inq = hs[h].inq
                 [] SendState(hs, h) = "err" ->
                       pc' = "select" /\ h \notin ValidHandlesOf(req_handles')]_vars

\* the second request found the second entry invalid and fell back to the
\* first, on whose full channel its dispatch is suspended
C28_Witness ==
    /\ flavor = "server" /\ pc = "send" /\ cur.frame.seq = 2
    /\ Len(req_handles.list) = 3
    /\ req_handles.send_index = 2
    /\ ~Node(req_handles, req_handles.list[2]).valid
    /\ cur.pos = req_handles.list[1]


\* frame n is queued for some worker
Held(H, n) == \E h \in Handles : \E i \in 1..Len(H[h].inq) : H[h].inq[i].seq = n

(* C29: when a frame is taken from a server socket while the registry it    *)
(* is for holds no entry, that registry is unchanged, send_index included,  *)
(* the frame is queued for no worker, no more frames are alive than         *)
(* before, and the loop is back at its selector.                            *)
C29_EmptyRegistry ==
    [][(flavor = "server" /\ nframes' = nframes + 1) =>
         /\ (cur'.kind = "sreq" /\ RegLen(req_handles) = 0) =>
               /\ req_handles' = req_handles
               /\ ~Held(hs', nframes') /\ Live' <= Live
               /\ pc' = "select"
         /\ (cur'.kind = "sstream" /\ RegLen(stream_handles) = 0) =>
               /\ stream_handles' = stream_handles
               /\ ~Held(hs', nframes') /\ Live' <= Live
               /\ pc' = "select"]_vars

\* a request was dispatched after both request handles had been removed,
\* with send_index where the earlier dispatches left it
C29_Witness ==
    /\ flavor = "server" /\ pc = "select"
    /\ cur.kind = "sreq" /\ cur.frame.seq = nframes
    /\ RegLen(req_handles) = 0
    /\ req_handles.send_index = 1
    /\ Len(sr_log) = nframes /\ sr_log[nframes] = 0

---------------------------------------------------------------------------
(* Properties of socket errors *)

\* message n is queued in a sub-channel of some handle
Requeued(H, n) ==
    \E h \in Handles :
       \/ \E i \in 1..Len(H[h].out) : H[h].out[i].n = n
       \/ \E i \in 1..Len(H[h].out_addr) : H[h].out_addr[i].n = n

\* the in-flight slot of a socket
SlotOfSock(sock, rs, os, oss) ==
    IF sock = "req" THEN rs ELSE IF sock = "out" THEN os ELSE oss

---------------------------------------------------------------------------
(* Properties of the messages of the workers *)

\* the socket that the sub-channel ch of handle h feeds
SockOf(h, ch) ==
    IF ch = "out_addr" THEN "out_stream"
    ELSE IF hs[h].kind \in {"req", "sreq"} THEN "req"
    ELSE "out"

\* the loop is running after the step
Runs == pc' \in {"select", "send"}

\* after the step, every message that was queued in the sub-channel ch of h
\* is still queued there or is the one in flight on its socket
Kept(h, ch) ==
    LET slot == SlotOfSock(SockOf(h, ch), req_send', stream_out_send', stream_out_stream_send')
    IN  \A i \in 1..Len(hs[h][ch]) :
           \/ \E j \in 1..Len(hs'[h][ch]) : hs'[h][ch][j].n = hs[h][ch][i].n
           \/ ~IsNone(slot) /\ slot.v.n = hs[h][ch][i].n

\* the step takes the oldest message of the sub-channel ch of h into the
\* empty slot of its socket
Wins(h, ch) ==
    /\ hs[h][ch] # << >>
    /\ hs'[h][ch] = Tail(hs[h][ch])
    /\ IsNone(SlotOfSock(SockOf(h, ch), req_send, stream_out_send, stream_out_stream_send))
    /\ LET slot == SlotOfSock(SockOf(h, ch), req_send', stream_out_send',
                              stream_out_stream_send')
       IN  ~IsNone(slot) /\ slot.v.n = hs[h][ch][1].n

(* C31 as stated: in every step that leaves the loop running, a sub-channel *)
(* from a worker loses a message only to a registry receive that wins the   *)
(* selector, which takes one message, the oldest, into the empty slot of    *)
(* its socket; every message that was queued is afterwards still queued or  *)
(* in flight, whichever branch won; and no message is handed over twice     *)
(* (the stamp of the latest message handed over from a sub-channel only     *)
(* grows).                                                                  *)
C31_SelectorRace ==
    [][Runs =>
         \A h \in Handles :
            /\ \A ch \in {"out", "out_addr"} :
                  /\ hs'[h][ch] # hs[h][ch] =>
                        \/ Wins(h, ch)
                        \/ Len(hs'[h][ch]) = Len(hs[h][ch]) + 1
                              /\ SubSeq(hs'[h][ch], 1, Len(hs[h][ch])) = hs[h][ch]
                  /\ Kept(h, ch)
            /\ lasthanded'[h].any # lasthanded[h].any => lasthanded'[h].any > lasthanded[h].any
            /\ lasthanded'[h].addr # lasthanded[h].addr =>
                  lasthanded'[h].addr > lasthanded[h].addr]_vars

\* a worker enqueued a message on its request handle and dropped the handle;
\* the dispatch of a frame to it failed, the entry was removed, and the
\* message is neither queued nor in flight and was never handed over
C31_Witness ==
    /\ pc = "select" /\ cur.kind = "req" /\ cur.got = << >>
    /\ nsends = 1
    /\ \E h \in Handles :
          /\ hs[h].kind = "req" /\ hs[h].worker = "dropped" /\ hs[h].pipe = "dropped"
          /\ \A g \in Handles \ {h} : hs[g].kind = "none"
          /\ lasthanded[h].any = 0
    /\ IsNone(req_send)

(* C36 as stated: in every step that leaves the loop running, every message *)
(* queued by a worker that has dropped its handle is afterwards still       *)
(* queued or in flight on its socket: the removal of the handle's entry     *)
(* discards none.                                                           *)
C36_NoDiscard ==
    [][Runs =>
         \A h \in Handles :
            hs[h].worker = "dropped" => (Kept(h, "out") /\ Kept(h, "out_addr"))]_vars

\* no frame has arrived; a worker enqueued an addressed message on its
\* stream handle and dropped the handle; the receive on the other
\* sub-channel found it closed, the entry was removed, and the message is
\* neither queued nor in flight and was never handed over
C36_Witness ==
    /\ pc = "select" /\ nframes = 0
    /\ nsends = 1
    /\ \E h \in Handles :
          /\ hs[h].kind = "stream" /\ hs[h].worker = "dropped" /\ hs[h].pipe = "dropped"
          /\ \A g \in Handles \ {h} : hs[g].worker # "dropped" /\ hs[g].out = << >>
          /\ \A g \in Handles : lasthanded[g] = [any |-> 0, addr |-> 0]
    /\ IsNone(stream_out_send) /\ IsNone(stream_out_stream_send)

---------------------------------------------------------------------------
(* Properties of Stop *)

\* the manager takes Stop from the control channel
TakesStop == TakesControl /\ Head(control).type = "Stop"

\* the manager neither hands a message to a socket nor enqueues a frame for a
\* worker in this step
Idle ==
    /\ lasthanded' = lasthanded
    /\ Len(wire') <= Len(wire)
    /\ io' = io
    /\ nframes' = nframes /\ cur' = cur
    /\ \A h \in Handles : Len(hs'[h].inq) <= Len(hs[h].inq)

(* C32: the step that takes Stop ends the loop; it leaves every in-flight   *)
(* slot empty with nothing completed, put on the wire or handed over, both  *)
(* registries as they were (no cleanup pass, even with the cleanup flag     *)
(* set), no reply and no frame taken; and from then on the manager fills no *)
(* slot, hands nothing to a socket and enqueues nothing for a worker, and   *)
(* every channel towards it that was registered is gone with what it held.  *)
C32_StopAbandons ==
    /\ [][TakesStop =>
            /\ pc' = "stopped"
            /\ inflight' = << None, None, None >>
            /\ Idle
            /\ req_handles' = req_handles /\ stream_handles' = stream_handles
            /\ control_reply' = control_reply]_vars
    /\ [][pc = "stopped" =>
            /\ pc' = "stopped"
            /\ inflight' = inflight
            /\ Idle
            /\ req_handles' = req_handles /\ stream_handles' = stream_handles]_vars
    /\ [](pc = "stopped" =>
            \A h \in HandlesOf(req_handles) \cup HandlesOf(stream_handles) :
               hs[h].pipe = "dropped" /\ hs[h].out = << >> /\ hs[h].out_addr = << >>)

\* Stop was taken with a send outstanding whose message never reached the
\* wire, and with an entry marked invalid that no cleanup pass removed
C32_Witness ==
    /\ pc = "stopped"
    /\ inflight = << None, None, None >>
    /\ wire = << >> /\ nread = 0
    /\ \E h \in Handles : lasthanded[h].addr > 0
    /\ stream_handles.need_cleanup
    /\ HandlesOf(stream_handles) # ValidHandlesOf(stream_handles)

---------------------------------------------------------------------------
(* Properties of the server stream index *)

\* a stream frame is taken from a server socket and dispatched into a
\* registry that holds entries
StreamDispatches ==
    /\ flavor = "server"
    /\ nframes' = nframes + 1
    /\ cur'.frame.seq = nframes' /\ cur'.ids # << >>
    /\ RegLen(stream_handles) > 0

(* C33 as stated: whenever a stream frame is dispatched into a registry     *)
(* with entries, the index hash(id) mod |entries| of each of its ids is the *)
(* key of an entry present in the registry.                                 *)
C33_IndexPresent ==
    [][StreamDispatches =>
         \A i \in 1..Len(cur'.ids) :
            Node(stream_handles, HashKey(stream_handles, cur'.ids[i])).occ]_vars

\* an entry was removed and the dispatch of the next frame addressed its
\* slot: the manager thread has panicked on the vacant slot
C33_Witness ==
    /\ pc = "panicked"
    /\ cur.kind = "sstream"
    /\ RegLen(stream_handles) > 0
    /\ ~Node(stream_handles, HashKey(stream_handles, cur.ids[cur.pos])).occ

(* C34 as stated: as long as the stream specs have not been applied, every  *)
(* index i below the number of entries addresses the entry at position i of *)
(* the list, the i-th handle registered among those present.                *)
C34_IndexIsPosition ==
    ~specs_applied =>
        \A i \in 0..(RegLen(stream_handles) - 1) :
           /\ Node(stream_handles, i).occ
           /\ stream_handles.list[i + 1] = i

\* before the specs are applied: the first of two handles is gone and a
\* third has taken its slot, so that index 0 addresses the handle
\* registered last and index 1 the one registered before it
C34_Witness ==
    /\ ~specs_applied
    /\ stream_handles.list = << 1, 0 >>
    /\ Node(stream_handles, 0).h > Node(stream_handles, 1).h
    /\ pc = "select"

---------------------------------------------------------------------------
(* Properties of the cleanup flag *)

\* the registry holds an entry marked invalid
HasInvalid(reg) == \E i \in 1..Len(reg.list) : ~Node(reg, reg.list[i]).valid

(* C35: wherever the loop is suspended, at its selector or inside a         *)
(* dispatch, the cleanup flag of each registry is set if and only if the    *)
(* registry holds an invalid entry; and the step that ends an iteration     *)
(* leaves both registries with valid entries only and both flags clear.     *)
C35_FlagExact ==
    /\ [](pc \in {"select", "send"} =>
            /\ req_handles.need_cleanup <=> HasInvalid(req_handles)
            /\ stream_handles.need_cleanup <=> HasInvalid(stream_handles))
    /\ [][IterationEnds =>
            /\ ~HasInvalid(req_handles') /\ ~req_handles'.need_cleanup
            /\ ~HasInvalid(stream_handles') /\ ~stream_handles'.need_cleanup]_vars

\* a dispatch is suspended on a full channel after marking the entry of a
\* departed worker invalid: the flag of the request registry is set, the
\* entry is still there, and the flag of the stream registry is clear
C35_Witness ==
    /\ pc = "send" /\ cur.kind = "req"
    /\ req_handles.need_cleanup
    /\ HasInvalid(req_handles)
    /\ Len(req_handles.list) = 2
    /\ ~stream_handles.need_cleanup

---------------------------------------------------------------------------
(* Properties of the arena references *)

\* the references to frame k that are held: inside a dispatch that waits the
\* handler's own and the copy given to the waiting send, one per copy a
\* channel holds, one per worker that keeps the frame
Holders(k) ==
    (IF pc = "send" /\ cur.frame.seq = k THEN 2 ELSE 0)
      + CopiesIn(hs, Handles, k)
      + Cardinality({ h \in Handles : k \in arena.held[h] })

\* C37: wherever the manager is suspended, the reference count of every
\* frame's SharedMessage is the number of references held: the handler's own
\* while its dispatch is in progress, one per copy queued in a handle's
\* channel, one per worker keeping the frame.  The copy of a failed send and
\* the handler's reference are gone when the dispatch ends, so a frame that
\* reached no handle is counted zero, and a count is zero exactly when
\* nobody holds the frame.
C37_RefCounts ==
    env.refs =>
      /\ \A k \in DOMAIN arena.rc : arena.rc[k] = Holders(k)
      /\ (pc # "send" /\ cur.frame.seq > 0 /\ cur.kind # "nomem" /\ cur.got = << >>)
            => arena.rc[cur.frame.seq] = 0

\* the second frame's dispatch waits after a send of it failed, while the
\* first frame is queued on one handle and kept by the worker that dropped
\* the other
C37_Witness ==
    /\ env.refs /\ pc = "send" /\ cur.frame.seq = 2
    /\ req_handles.need_cleanup
    /\ arena.rc[1] = 2 /\ arena.rc[2] = 2
    /\ \E h \in Handles : 1 \in arena.held[h] /\ hs[h].worker = "dropped"

---------------------------------------------------------------------------
(* Properties of the specs-applied flag *)

\* C38: once the server manager has processed a SetServerStream request,
\* whether apply_stream_specs succeeded or failed and was answered with an
\* error, every later AddServerStreamHandle request is refused: its handle is
\* not registered and its pipe end is dropped.  The request sets the flag
\* and is answered with the result of the application; the flag is never
\* cleared, and the stream registry gains an entry only while it is unset.
C38_SpecsLatch ==
    /\ [][specs_applied => specs_applied']_vars
    /\ [][(flavor = "server" /\ TakesControl /\ Head(control).type = "SetServerStream") =>
            /\ specs_applied'
            /\ control_reply' = Append(control_reply, Head(control).ok)]_vars
    /\ [][(flavor = "server" /\ TakesControl /\ ss.result # "none"
             /\ Head(control).type = "AddServerStreamHandle") =>
            LET h == Head(control).h IN
            /\ h \notin HandlesOf(stream_handles')
            /\ hs'[h].pipe = "dropped"
            /\ add_result'[h] = "specs"]_vars
    /\ [][(HandlesOf(stream_handles') \ HandlesOf(stream_handles) # {}) =>
            (~specs_applied /\ ss.result = "none")]_vars
    /\ [](ss.result # "none" => specs_applied)

\* the application failed; a stream handle created afterwards was refused
\* while the registry still has room
C38_Witness ==
    /\ flavor = "server" /\ ss.result = "err" /\ specs_applied
    /\ control_reply = << >> /\ owner = "idle"
    /\ RegLen(req_handles) + RegLen(stream_handles) < HANDLES_MAX
    /\ \E h \in Handles : /\ add_result[h] = "specs" /\ hs[h].pipe = "dropped"
                           /\ h \notin HandlesOf(stream_handles)

---------------------------------------------------------------------------
(* Properties of the server request dispatch and its invalid entries *)

\* the handles whose channel holds frame n
HoldersOf(H, n) == { h \in Handles : \E i \in 1..Len(H[h].inq) : H[h].inq[i].seq = n }

\* C39: a request whose dispatch into a registry with at least one valid
\* entry runs to its end is enqueued on the channel of exactly one entry
\* that was valid, and on no other, wherever the invalid entries stand.
C39_ExactlyOneValid ==
    [][(Dispatches /\ ValidHandlesOf(req_handles) # {} /\ pc' = "select") =>
         \E h \in ValidHandlesOf(req_handles) :
            /\ cur'.got = << h >>
            /\ HoldersOf(hs', nframes') = { h }]_vars

\* a request was enqueued on no handle although the registry held, and still
\* holds, a valid entry whose worker has its handle and room in its channel,
\* and no send failed
C39_Witness ==
    /\ flavor = "server" /\ pc = "select" /\ cur.kind = "sreq" /\ cur.got = << >>
    /\ cur.frame.seq = nframes
    /\ cur.valid0 # {}
    /\ \A e \in cur.valid0 :
          /\ hs[e.h].worker = "open" /\ hs[e.h].inq = << >>
          /\ e.h \in ValidHandlesOf(req_handles)

---------------------------------------------------------------------------
(* Properties of duplicate delivery *)

\* C40: a dispatch enqueues its frame at most once on the inbound channel of
\* any one handle: the client's prefix dispatch however many of the frame's
\* ids match the entry's prefix, the server's hash dispatch however many of
\* the frame's ids hash to the entry.
C40_AtMostOnce ==
    \A h \in Handles : Enqueued(h) <= 1

\* a server stream frame with two ids was enqueued twice on the same handle:
\* its worker has received one copy and the other is in its channel
C40_Witness ==
    /\ flavor = "server" /\ cur.kind = "sstream" /\ pc = "select"
    /\ Len(cur.ids) = 2 /\ cur.ids[1] # cur.ids[2]
    /\ \E h \in Handles :
          /\ cur.got = << h, h >>
          /\ lastgot[h] = cur.frame.seq
          /\ hs[h].inq = << cur.frame >>

=============================================================================
